---- MODULE Spec2Model ----
(***************************************************************************)
(* Session & Mode Orchestrator of MacroX (App.tsx, use-window-manager.ts,  *)
(* the recording / playback panels).                                       *)
(*                                                                         *)
(* React state is held in one variable per useState cell.  A handler's     *)
(* synchronous segment is one action; every `await invoke(...)` ends the   *)
(* segment and leaves a task in `inflight` that carries the values the     *)
(* closure captured; the engine's answer (resolve / reject) is a second    *)
(* action that runs the continuation with the captured values.             *)
(* Clicks are discrete React events: the render they cause and the         *)
(* passive effect of App.tsx:64-78 run before any other task, so a UI      *)
(* action that changes a dependency leaves the refs synchronised.  State   *)
(* updates made in promise continuations and in Tauri listeners are        *)
(* rendered later; their ref synchronisation is the separate action        *)
(* SyncRefs.                                                               *)
(***************************************************************************)
EXTENDS Integers, Sequences, FiniteSets, TLC

\* ---------------------------------------------------------------- bounds
MaxMacros == 2      \* most macros the library holds in the model
MaxInFlight == 3    \* most engine requests in flight at once
MaxClock == 2       \* last millisecond of the clock Date.now() reads
MaxOps == 3         \* clicks and hotkey signals in one run of the model
MaxTime == 5        \* last instant of the host clock, in units of 100 ms

VARIABLES
  currentView,              \* App.tsx:23
  macros,                   \* App.tsx:24
  isRecording,              \* App.tsx:25
  isPlaying,                \* App.tsx:26
  recordedEvents,           \* App.tsx:27
  isAlwaysOnTop,            \* App.tsx:28
  isMiniMode,               \* use-window-manager.ts:14
  selectedPlaybackMacroId,  \* App.tsx:34
  recordingSettings,        \* App.tsx:37
  refs,                     \* App.tsx:53-58, the six shadow references
  inflight,                 \* requests awaiting the engine, with their closures
  now,                      \* the millisecond clock read by Date.now()
  ops,                      \* operations the environment has started so far
  last,                     \* the step taken last (operation, origin, inputs)
  reqs,                     \* the engine requests issued by the last step
  notes,                    \* the notifications raised by the last step
  appSettings,              \* the application settings the engine holds
  winSize,                  \* the inner size of the window, in pixels
  debounceTimer,            \* use-window-manager.ts:19, deadlines of the timers set
  time,                     \* the host clock, in units of 100 ms
  resizeLog,                \* what the resize handling has done so far
  notificationMsg,          \* App.tsx:33, the banner line of the Mini panel
  clearTimers,              \* seconds left on the setTimeout(..., 3000) calls pending
  bannerAge,                \* seconds the banner line has been shown
  hotkeySettings,           \* App.tsx:45
  engineHotkeys,            \* the bindings the engine has registered
  estimate,                 \* the playback settings and the durations shown
  storedAtStart,            \* the application settings the engine held at startup
  hotkeysAtStart            \* the bindings the engine had registered at startup

vars == <<currentView, macros, isRecording, isPlaying, recordedEvents,
          isAlwaysOnTop, isMiniMode, selectedPlaybackMacroId,
          recordingSettings, refs, inflight, now, ops, last, reqs, notes,
          appSettings, winSize, debounceTimer, time, resizeLog,
          notificationMsg, clearTimers, bannerAge, hotkeySettings,
          engineHotkeys, estimate, storedAtStart, hotkeysAtStart>>

\* the banner line of the Mini panel and its timers
bannerVars == <<notificationMsg, clearTimers, bannerAge>>

\* the hotkey bindings (local and engine) and the playback panel's estimate
otherVars == <<hotkeySettings, engineHotkeys, estimate, storedAtStart, hotkeysAtStart>>

\* what lies outside the session: the engine's settings, the window, timers,
\* the bindings and the estimate
hostVars == <<appSettings, winSize, debounceTimer, time, resizeLog, otherVars>>

\* ----------------------------------------------------------------- data
\* the auto-clear delay of the banner, 3000 ms, in seconds
BannerClear == 3

\* useState<HotkeySettings>({ recordStart: "F9", ... })
DefaultHotkeys ==
  [recordStart |-> "F9", recordStop |-> "F10", playbackStart |-> "F11",
   playbackStop |-> "F12"]

ViewType == {"recording", "macros", "settings"}

MacroEvent(t) == [type |-> "key_press", timestamp |-> t]

\* the event sequences the engine may hand back from stop_recording
EventSeqs == {<<>>, <<MacroEvent(0), MacroEvent(5)>>}

DefaultRecordingSettings ==
  [recordMouseMovement |-> TRUE, recordMouseClicks |-> TRUE,
   recordKeyboard |-> TRUE]

\* the recording options the model toggles
SettingKeys == {"recordMouseMovement"}

DefaultPlaybackSettings == [speed |-> 1, repeatMode |-> "once", repeatCount |-> 1]

Macro(id, name, events, settings) ==
  [id |-> id, name |-> name, description |-> "", events |-> events,
   recordingSettings |-> settings, playbackSettings |-> DefaultPlaybackSettings]

\* macros that exist outside this session: files offered to import_macro and
\* the library the engine has stored; their content is not validated
ExternalMacros ==
  { Macro("1", <<"Imported", 1>>, <<MacroEvent(0)>>, DefaultRecordingSettings) }

StoredLibraries ==
  { <<>>,
    <<Macro("x", <<"Imported", 2>>, <<>>, DefaultRecordingSettings)>> }

StoredSelections == {"", "x"}

StoredAlwaysOnTop == {FALSE}

\* setWindowSize(1000, 700) and setWindowSize(355, 140)
NormalSize == [width |-> 1000, height |-> 700]

MiniSize == [width |-> 355, height |-> 140]

\* }, 200); // 200ms debounce -- in units of 100 ms
Debounce == 2

\* size.width < 500 || size.height < 500
SnapDownBelow == 500

\* size.width > 360 || size.height > 150
SnapUpWidth == 360

SnapUpHeight == 150

\* the sizes the user drags the window to
UserSizes ==
  { [width |-> 480, height |-> 600], [width |-> 800, height |-> 600],
    [width |-> 350, height |-> 140] }

\* `Macro ${n}`
MacroName(n) == <<"Macro", n>>

\* the values Date.now() may return: the millisecond of the previous reading
\* or, when time has passed since, a later one
DateNow == {t \in {now, now + 1} : t <= MaxClock}

\* Date.now().toString()
DateNowString(t) == ToString(t)

\* --------------------------------------------------------------- helpers
RemoveAt(s, i) == SubSeq(s, 1, i - 1) \o SubSeq(s, i + 1, Len(s))

find(ms, id) == { i \in 1..Len(ms) : ms[i].id = id }

Request(cmd, arg) == [cmd |-> cmd, arg |-> arg]

\* a request in flight: `done` and `answer` are the engine's side of it, set
\* when the engine has processed the request and has not yet replied
Task(cmd, src, cap) ==
  [cmd |-> cmd, src |-> src, cap |-> cap, done |-> "pending", answer |-> <<>>]

NoCap == [none |-> TRUE]

Last(op, src) ==
  [op |-> op, src |-> src, ok |-> TRUE, events |-> <<>>, id |-> "",
   stray |-> FALSE, gate |-> TRUE, own |-> FALSE, size |-> <<>>]

\* the values the effect of App.tsx:64-78 copies into the refs
Deps ==
  [isRecording |-> isRecording, isPlaying |-> isPlaying,
   recordedEvents |-> recordedEvents, recordingSettings |-> recordingSettings,
   currentView |-> currentView, isMiniMode |-> isMiniMode]

\* a discrete event (click) renders and flushes the effect before it returns
DiscreteSync == refs' = IF Deps' # Deps THEN Deps' ELSE refs

CanIssue == Len(inflight) < MaxInFlight

\* one more click or signal from the environment
Op == ops < MaxOps /\ ops' = ops + 1

\* Centralized Notification Handler
handleNotify(message, type) ==
  IF refs.isMiniMode
  THEN <<[channel |-> "banner", type |-> "none", msg |-> message]>>
  ELSE <<[channel |-> "toast", type |-> type, msg |-> message]>>

\* setNotificationMsg(message); setTimeout(() => setNotificationMsg(""), 3000):
\* what a step that raised a banner notification does to the banner
showInBanner ==
  IF notes' # <<>> /\ notes'[1].channel = "banner"
  THEN /\ notificationMsg' = notes'[1].msg
       /\ clearTimers' = clearTimers \cup {BannerClear}
       /\ bannerAge' = 0
  ELSE UNCHANGED bannerVars

\* the inline notification code of the hotkey listeners
listenerNotify(miniMessage, toastMessage, type) ==
  IF refs.isMiniMode
  THEN <<[channel |-> "banner", type |-> "none", msg |-> miniMessage]>>
  ELSE <<[channel |-> "toast", type |-> type, msg |-> toastMessage]>>

\* ------------------------------------------------------------------ Init
\* the useState cells and the refs at the first render
InitState ==
  /\ currentView = "recording"
  /\ macros = <<>>
  /\ isRecording = FALSE
  /\ isPlaying = FALSE
  /\ recordedEvents = <<>>
  /\ isAlwaysOnTop = FALSE
  /\ isMiniMode = FALSE
  /\ selectedPlaybackMacroId = ""
  /\ recordingSettings = DefaultRecordingSettings
  /\ refs = [isRecording |-> FALSE, isPlaying |-> FALSE,
             recordedEvents |-> <<>>,
             recordingSettings |-> DefaultRecordingSettings,
             currentView |-> "recording", isMiniMode |-> FALSE]
  /\ now = 1
  /\ ops = 0
  /\ notes = <<>>
  /\ notificationMsg = ""
  /\ clearTimers = {}
  /\ bannerAge = 0

\* the React tree after the first render: the mount effects have issued their
\* requests
InitSession ==
  /\ InitState
  /\ inflight = << Task("get_app_settings", "loadSettings", NoCap),
                   Task("initialize", "initialize", NoCap) >>
  /\ last = Last("mount", "react")
  /\ reqs = << Request("get_app_settings", NoCap),
               Request("load_all_macros", NoCap),
               Request("is_recording", NoCap),
               Request("get_hotkeys", NoCap) >>

\* the window as the host opens it; no timer is set
InitWindow ==
  /\ winSize = NormalSize
  /\ debounceTimer = {}
  /\ time = 0
  /\ resizeLog = [sigAt |-> 0 - Debounce, burst |-> 0, evals |-> 0, cmds |-> 0,
                  userSignals |-> 0, userSize |-> NormalSize]

\* the bindings and the estimate where a specification leaves them out
InitOther ==
  /\ hotkeySettings = DefaultHotkeys
  /\ engineHotkeys = DefaultHotkeys
  /\ estimate = <<>>
  /\ storedAtStart = appSettings
  /\ hotkeysAtStart = engineHotkeys

\* Spec leaves the engine open: its answers are arbitrary and the settings it
\* holds are never consulted (SettingsSpec below resolves them)
Init ==
  /\ InitSession
  /\ InitWindow
  /\ appSettings = [alwaysOnTop |-> FALSE, lastSelectedMacroId |-> ""]
  /\ InitOther

\* ------------------------------------------------------------------ refs
\* useEffect(() => { isRecordingRef.current = isRecording; ... }, [...])
SyncRefs ==
  /\ refs # Deps
  /\ refs' = Deps
  /\ last' = Last("syncRefs", "react")
  /\ reqs' = <<>>
  /\ notes' = <<>>
  /\ UNCHANGED <<currentView, macros, isRecording, isPlaying, recordedEvents,
                 isAlwaysOnTop, isMiniMode, selectedPlaybackMacroId,
                 recordingSettings, inflight, now>>
  /\ UNCHANGED <<ops, hostVars>>
  /\ showInBanner

\* ------------------------------------------------------- macro selection
\* handleMacroSelect(id), called with the isAlwaysOnTop its closure captured;
\* `rest` is the list of requests in flight the caller leaves behind
handleMacroSelect(id, alwaysOnTop, rest) ==
  /\ selectedPlaybackMacroId' = id
  /\ reqs' = << Request("update_app_settings",
                        [alwaysOnTop |-> alwaysOnTop,
                         lastSelectedMacroId |-> id]) >>
  /\ inflight' = Append(rest, Task("update_app_settings", "handleMacroSelect",
                                   [id |-> id,
                                    settings |->
                                      [alwaysOnTop |-> alwaysOnTop,
                                       lastSelectedMacroId |-> id]]))

\* the update_app_settings request of handleMacroSelect resolves or rejects
handleMacroSelect_settled(i, ok) ==
  /\ inflight[i].cmd = "update_app_settings"
  /\ inflight[i].src = "handleMacroSelect"
  /\ inflight' = RemoveAt(inflight, i)
  /\ last' = [Last("selectMacro:settled", "engine") EXCEPT !.ok = ok]
  /\ reqs' = <<>>
  /\ notes' = <<>>
  /\ UNCHANGED <<currentView, macros, isRecording, isPlaying, recordedEvents,
                 isAlwaysOnTop, isMiniMode, selectedPlaybackMacroId,
                 recordingSettings, refs, now>>
  /\ UNCHANGED <<ops, hostVars>>
  /\ showInBanner

\* the Select of the playback panel and the stepper of the Mini panel
SelectableIds ==
  IF isMiniMode
  THEN IF Len(macros) <= 1 THEN {}
       ELSE LET cur == find(macros, selectedPlaybackMacroId)
                currentIndex == IF cur = {} THEN 0
                                ELSE CHOOSE k \in cur : \A j \in cur : k <= j
                prev == IF currentIndex > 1 THEN currentIndex - 1
                        ELSE Len(macros)
                next == IF currentIndex < Len(macros) THEN currentIndex + 1
                        ELSE 1
            IN {macros[prev].id, macros[next].id}
  ELSE IF currentView = "macros" THEN {macros[k].id : k \in 1..Len(macros)}
       ELSE {}

UISelectMacro(id) ==
  /\ Op
  /\ UNCHANGED hostVars
  /\ id \in SelectableIds
  /\ CanIssue
  /\ handleMacroSelect(id, isAlwaysOnTop, inflight)
  /\ last' = [Last("selectMacro", "ui") EXCEPT !.id = id]
  /\ notes' = <<>>
  /\ UNCHANGED <<currentView, macros, isRecording, isPlaying, recordedEvents,
                 isAlwaysOnTop, isMiniMode, recordingSettings, refs, now>>
  /\ showInBanner

\* ------------------------------------------------------------- recording
\* the record button is rendered by the recording view and by the Mini panel
RecordButtonShown == isMiniMode \/ currentView = "recording"

\* onClick={isRecording ? onStopRecording : onStartRecording}
handleStartRecording ==
  /\ Op
  /\ UNCHANGED hostVars
  /\ RecordButtonShown
  /\ ~isRecording
  /\ CanIssue
  /\ inflight' = Append(inflight, Task("start_recording", "ui", NoCap))
  /\ reqs' = << Request("start_recording", [settings |-> recordingSettings]) >>
  /\ last' = Last("startRecording", "ui")
  /\ notes' = <<>>
  /\ UNCHANGED <<currentView, macros, isRecording, isPlaying, recordedEvents,
                 isAlwaysOnTop, isMiniMode, selectedPlaybackMacroId,
                 recordingSettings, refs, now>>
  /\ showInBanner

handleStartRecording_then(i) ==
  /\ inflight[i].cmd = "start_recording"
  /\ inflight[i].src = "ui"
  /\ isRecording' = TRUE
  /\ recordedEvents' = <<>>
  /\ notes' = handleNotify("Recording started", "success")
  /\ inflight' = RemoveAt(inflight, i)
  /\ last' = Last("startRecording:resolved", "ui")
  /\ reqs' = <<>>
  /\ UNCHANGED <<currentView, macros, isPlaying, isAlwaysOnTop, isMiniMode,
                 selectedPlaybackMacroId, recordingSettings, refs, now>>
  /\ UNCHANGED <<ops, hostVars>>
  /\ showInBanner

\* the catch block clearing the event buffer as the success path does
handleStartRecording_catch_clearsBuffer(i) ==
  /\ inflight[i].cmd = "start_recording"
  /\ inflight[i].src = "ui"
  /\ recordedEvents' = <<>>
  /\ notes' = handleNotify("Failed to start recording", "error")
  /\ inflight' = RemoveAt(inflight, i)
  /\ last' = [Last("startRecording:rejected", "ui") EXCEPT !.ok = FALSE]
  /\ reqs' = <<>>
  /\ UNCHANGED <<currentView, macros, isRecording, isPlaying,
                 isAlwaysOnTop, isMiniMode, selectedPlaybackMacroId,
                 recordingSettings, refs, now>>
  /\ UNCHANGED <<ops, hostVars>>
  /\ showInBanner

handleStartRecording_catch(i) ==
  /\ inflight[i].cmd = "start_recording"
  /\ inflight[i].src = "ui"
  /\ notes' = handleNotify("Failed to start recording", "error")
  /\ inflight' = RemoveAt(inflight, i)
  /\ last' = [Last("startRecording:rejected", "ui") EXCEPT !.ok = FALSE]
  /\ reqs' = <<>>
  /\ UNCHANGED <<currentView, macros, isRecording, isPlaying, recordedEvents,
                 isAlwaysOnTop, isMiniMode, selectedPlaybackMacroId,
                 recordingSettings, refs, now>>
  /\ UNCHANGED <<ops, hostVars>>
  /\ showInBanner

\* the guard without its test: a macro is created for every answer
capturedSomething_always(events) == Len(events) >= 0

\* if (events.length > 0) { ...create the macro... }
capturedSomething(events) == Len(events) > 0

handleStopRecording ==
  /\ Op
  /\ UNCHANGED hostVars
  /\ RecordButtonShown
  /\ isRecording
  /\ CanIssue
  /\ inflight' = Append(inflight,
        Task("stop_recording", "ui",
             [macros |-> macros, recordingSettings |-> recordingSettings,
              isAlwaysOnTop |-> isAlwaysOnTop]))
  /\ reqs' = << Request("stop_recording", NoCap) >>
  /\ last' = Last("stopRecording", "ui")
  /\ notes' = <<>>
  /\ UNCHANGED <<currentView, macros, isRecording, isPlaying, recordedEvents,
                 isAlwaysOnTop, isMiniMode, selectedPlaybackMacroId,
                 recordingSettings, refs, now>>
  /\ showInBanner

\* const events = await invoke("stop_recording"); ... up to await save_macro
handleStopRecording_then(i, events, t) ==
  /\ inflight[i].cmd = "stop_recording"
  /\ inflight[i].src = "ui"
  /\ LET cap == inflight[i].cap
         newMacro == Macro(DateNowString(t), MacroName(Len(cap.macros) + 1),
                           events, cap.recordingSettings)
     IN /\ isRecording' = FALSE
        /\ recordedEvents' = events
        /\ notes' = handleNotify("Recording stopped", "success")
        /\ IF capturedSomething(events)
           THEN /\ Len(cap.macros) < MaxMacros
                /\ t \in DateNow
                /\ now' = t
                /\ macros' = Append(cap.macros, newMacro)
                /\ reqs' = << Request("save_macro", newMacro) >>
                /\ inflight' = Append(RemoveAt(inflight, i),
                      Task("save_macro", "handleStopRecording",
                           [id |-> newMacro.id,
                            isAlwaysOnTop |-> cap.isAlwaysOnTop]))
           ELSE /\ t = now
                /\ now' = now
                /\ macros' = macros
                /\ reqs' = <<>>
                /\ inflight' = RemoveAt(inflight, i)
  /\ last' = [Last("stopRecording:resolved", "ui") EXCEPT !.events = events]
  /\ UNCHANGED <<currentView, isPlaying, isAlwaysOnTop, isMiniMode,
                 selectedPlaybackMacroId, recordingSettings, refs>>
  /\ UNCHANGED <<ops, hostVars>>
  /\ showInBanner

\* catch (error) of handleStopRecording, reached from stop_recording
handleStopRecording_catch(i) ==
  /\ inflight[i].cmd = "stop_recording"
  /\ inflight[i].src = "ui"
  /\ isRecording' = FALSE
  /\ notes' = handleNotify("Failed to stop recording", "error")
  /\ inflight' = RemoveAt(inflight, i)
  /\ last' = [Last("stopRecording:rejected", "ui") EXCEPT !.ok = FALSE]
  /\ reqs' = <<>>
  /\ UNCHANGED <<currentView, macros, isPlaying, recordedEvents, isAlwaysOnTop,
                 isMiniMode, selectedPlaybackMacroId, recordingSettings, refs,
                 now>>
  /\ UNCHANGED <<ops, hostVars>>
  /\ showInBanner

\* await invoke("save_macro") resolved: handleMacroSelect(newMacro.id)
handleStopRecording_saved(i) ==
  /\ inflight[i].cmd = "save_macro"
  /\ inflight[i].src = "handleStopRecording"
  /\ handleMacroSelect(inflight[i].cap.id, inflight[i].cap.isAlwaysOnTop,
                       RemoveAt(inflight, i))
  /\ last' = [Last("stopRecording:saved", "ui") EXCEPT !.id = inflight[i].cap.id]
  /\ notes' = <<>>
  /\ UNCHANGED <<currentView, macros, isRecording, isPlaying, recordedEvents,
                 isAlwaysOnTop, isMiniMode, recordingSettings, refs, now>>
  /\ UNCHANGED <<ops, hostVars>>
  /\ showInBanner

\* catch (error) of handleStopRecording, reached from save_macro
handleStopRecording_saveFailed(i) ==
  /\ inflight[i].cmd = "save_macro"
  /\ inflight[i].src = "handleStopRecording"
  /\ isRecording' = FALSE
  /\ notes' = handleNotify("Failed to stop recording", "error")
  /\ inflight' = RemoveAt(inflight, i)
  /\ last' = [Last("stopRecording:saveFailed", "ui") EXCEPT !.ok = FALSE,
                                                     !.id = inflight[i].cap.id]
  /\ reqs' = <<>>
  /\ UNCHANGED <<currentView, macros, isPlaying, recordedEvents, isAlwaysOnTop,
                 isMiniMode, selectedPlaybackMacroId, recordingSettings, refs,
                 now>>
  /\ UNCHANGED <<ops, hostVars>>
  /\ showInBanner

\* ------------------------------------------------------ hotkey listeners
\* a settings test that is lifted while the window is in Mini mode
settingsGate_liftedInMini ==
  refs.currentView = "settings" /\ ~refs.isMiniMode

\* if (currentViewRef.current === "settings") return;
settingsGate == refs.currentView = "settings"

recordStartGate == ~refs.isRecording /\ ~refs.isPlaying

recordStopGate == refs.isRecording

playbackStartGate ==
  ~refs.isRecording /\ ~refs.isPlaying /\ Len(refs.recordedEvents) > 0

playbackStopGate == refs.isPlaying

\* a signal the listener ignores
Ignored(op) ==
  /\ last' = [Last(op, "hotkey") EXCEPT !.gate = FALSE]
  /\ reqs' = <<>>
  /\ notes' = <<>>
  /\ UNCHANGED <<currentView, macros, isRecording, isPlaying, recordedEvents,
                 isAlwaysOnTop, isMiniMode, selectedPlaybackMacroId,
                 recordingSettings, refs, inflight, now>>

\* listen("hotkey:record-start", ...)
hotkeyRecordStart ==
  /\ Op
  /\ UNCHANGED hostVars
  /\ IF ~settingsGate /\ recordStartGate
     THEN /\ CanIssue
          /\ inflight' = Append(inflight, Task("start_recording", "hotkey", NoCap))
          /\ reqs' = << Request("start_recording",
                                [settings |-> refs.recordingSettings]) >>
          /\ last' = Last("hotkey:record-start", "hotkey")
          /\ notes' = <<>>
          /\ UNCHANGED <<currentView, macros, isRecording, isPlaying,
                         recordedEvents, isAlwaysOnTop, isMiniMode,
                         selectedPlaybackMacroId, recordingSettings, refs, now>>
     ELSE Ignored("hotkey:record-start")
  /\ showInBanner

hotkeyRecordStart_then(i) ==
  /\ inflight[i].cmd = "start_recording"
  /\ inflight[i].src = "hotkey"
  /\ isRecording' = TRUE
  /\ recordedEvents' = <<>>
  /\ notes' = listenerNotify("Recording started via hotkey",
                             "Recording started via hotkey", "success")
  /\ inflight' = RemoveAt(inflight, i)
  /\ last' = Last("startRecording:resolved", "hotkey")
  /\ reqs' = <<>>
  /\ UNCHANGED <<currentView, macros, isPlaying, isAlwaysOnTop, isMiniMode,
                 selectedPlaybackMacroId, recordingSettings, refs, now>>
  /\ UNCHANGED <<ops, hostVars>>
  /\ showInBanner

hotkeyRecordStart_catch(i) ==
  /\ inflight[i].cmd = "start_recording"
  /\ inflight[i].src = "hotkey"
  /\ notes' = listenerNotify("Failed to start", "Failed to start recording",
                             "error")
  /\ inflight' = RemoveAt(inflight, i)
  /\ last' = [Last("startRecording:rejected", "hotkey") EXCEPT !.ok = FALSE]
  /\ reqs' = <<>>
  /\ UNCHANGED <<currentView, macros, isRecording, isPlaying, recordedEvents,
                 isAlwaysOnTop, isMiniMode, selectedPlaybackMacroId,
                 recordingSettings, refs, now>>
  /\ UNCHANGED <<ops, hostVars>>
  /\ showInBanner

\* the listener without its settings-view test
hotkeyRecordStop_noSettingsGate ==
  /\ Op
  /\ UNCHANGED hostVars
  /\ IF recordStopGate
     THEN /\ CanIssue
          /\ reqs' = << Request("stop_recording", NoCap) >>
          /\ inflight' = Append(inflight, Task("stop_recording", "hotkey", NoCap))
          /\ last' = Last("hotkey:record-stop", "hotkey")
          /\ notes' = <<>>
          /\ UNCHANGED <<currentView, macros, isRecording, isPlaying,
                         recordedEvents, isAlwaysOnTop, isMiniMode,
                         selectedPlaybackMacroId, recordingSettings, refs, now>>
     ELSE Ignored("hotkey:record-stop")
  /\ showInBanner

\* listen("hotkey:record-stop", ...)
hotkeyRecordStop ==
  /\ Op
  /\ UNCHANGED hostVars
  /\ IF ~settingsGate /\ recordStopGate
     THEN /\ CanIssue
          /\ inflight' = Append(inflight, Task("stop_recording", "hotkey", NoCap))
          /\ reqs' = << Request("stop_recording", NoCap) >>
          /\ last' = Last("hotkey:record-stop", "hotkey")
          /\ notes' = <<>>
          /\ UNCHANGED <<currentView, macros, isRecording, isPlaying,
                         recordedEvents, isAlwaysOnTop, isMiniMode,
                         selectedPlaybackMacroId, recordingSettings, refs, now>>
     ELSE Ignored("hotkey:record-stop")
  /\ showInBanner

\* .then((events) => { ... setMacros((prevMacros) => ...) ... })
hotkeyRecordStop_then(i, events, t) ==
  /\ inflight[i].cmd = "stop_recording"
  /\ inflight[i].src = "hotkey"
  /\ LET newMacro == Macro(DateNowString(t), MacroName(Len(macros) + 1), events,
                           refs.recordingSettings)
     IN /\ isRecording' = FALSE
        /\ recordedEvents' = events
        /\ IF capturedSomething(events)
           THEN /\ Len(macros) < MaxMacros
                /\ t \in DateNow
                /\ now' = t
                /\ macros' = Append(macros, newMacro)
                /\ reqs' = << Request("save_macro", newMacro) >>
                /\ inflight' = Append(RemoveAt(inflight, i),
                      Task("save_macro", "hotkey", [id |-> newMacro.id]))
           ELSE /\ t = now
                /\ now' = now
                /\ macros' = macros
                /\ reqs' = <<>>
                /\ inflight' = RemoveAt(inflight, i)
  /\ notes' = listenerNotify("Stopped", "Recording stopped", "success")
  /\ last' = [Last("stopRecording:resolved", "hotkey") EXCEPT !.events = events]
  /\ UNCHANGED <<currentView, isPlaying, isAlwaysOnTop, isMiniMode,
                 selectedPlaybackMacroId, recordingSettings, refs>>
  /\ UNCHANGED <<ops, hostVars>>
  /\ showInBanner

\* the catch handler without setIsRecording(false)
hotkeyRecordStop_catch_keepsRecording(i) ==
  /\ inflight[i].cmd = "stop_recording"
  /\ inflight[i].src = "hotkey"
  /\ notes' = listenerNotify("Failed to stop", "Failed to stop recording",
                             "error")
  /\ inflight' = RemoveAt(inflight, i)
  /\ last' = [Last("stopRecording:rejected", "hotkey") EXCEPT !.ok = FALSE]
  /\ reqs' = <<>>
  /\ UNCHANGED <<currentView, macros, isRecording, isPlaying, recordedEvents,
                 isAlwaysOnTop, isMiniMode, selectedPlaybackMacroId,
                 recordingSettings, refs, now>>
  /\ UNCHANGED <<ops, hostVars>>
  /\ showInBanner

hotkeyRecordStop_catch(i) ==
  /\ inflight[i].cmd = "stop_recording"
  /\ inflight[i].src = "hotkey"
  /\ isRecording' = FALSE
  /\ notes' = listenerNotify("Failed to stop", "Failed to stop recording",
                             "error")
  /\ inflight' = RemoveAt(inflight, i)
  /\ last' = [Last("stopRecording:rejected", "hotkey") EXCEPT !.ok = FALSE]
  /\ reqs' = <<>>
  /\ UNCHANGED <<currentView, macros, isPlaying, recordedEvents, isAlwaysOnTop,
                 isMiniMode, selectedPlaybackMacroId, recordingSettings, refs,
                 now>>
  /\ UNCHANGED <<ops, hostVars>>
  /\ showInBanner

\* invoke("save_macro", ...).catch((e) => logError(String(e)))
hotkeyRecordStop_saveSettled(i, ok) ==
  /\ inflight[i].cmd = "save_macro"
  /\ inflight[i].src = "hotkey"
  /\ inflight' = RemoveAt(inflight, i)
  /\ last' = [Last("stopRecording:saveSettled", "hotkey") EXCEPT !.ok = ok]
  /\ reqs' = <<>>
  /\ notes' = <<>>
  /\ UNCHANGED <<currentView, macros, isRecording, isPlaying, recordedEvents,
                 isAlwaysOnTop, isMiniMode, selectedPlaybackMacroId,
                 recordingSettings, refs, now>>
  /\ UNCHANGED <<ops, hostVars>>
  /\ showInBanner

\* -------------------------------------------------------------- playback
\* PlaybackPanel.getActiveEvents(): the events of the selected macro, or []
getActiveEvents ==
  LET hit == find(macros, selectedPlaybackMacroId)
  IN IF hit = {} THEN <<>>
     ELSE macros[CHOOSE k \in hit : \A j \in hit : k <= j].events

\* PlaybackPanel renders its controls only with content
hasContent == Len(recordedEvents) > 0 \/ Len(macros) > 0

PlaybackPanelShown == ~isMiniMode /\ currentView = "macros" /\ hasContent

\* the Mini play button: disabled={!selectedMacroId || macros.length === 0}
MiniPlayButtonEnabled ==
  isMiniMode /\ selectedPlaybackMacroId # "" /\ Len(macros) > 0

tempMacro(events, settings) == Macro("temp", <<"Preview", 0>>, events, settings)

\* if (events.length === 0) { handleNotify("No events to play"); return; }
emptyInput(events) == Len(events) = 0

\* handlePlayRecordedEvents(events, playbackSettings), synchronous segment
handlePlayRecordedEvents(events) ==
  IF emptyInput(events)
  THEN /\ notes' = handleNotify("No events to play", "error")
       /\ reqs' = <<>>
       /\ UNCHANGED <<isPlaying, inflight>>
  ELSE /\ isPlaying' = TRUE
       /\ reqs' = << Request("play_macro", tempMacro(events, recordingSettings)) >>
       /\ inflight' = Append(inflight, Task("play_macro", "events", NoCap))
       /\ notes' = <<>>

\* PlaybackPanel.handlePlay, the button while not playing
UIPlayRecorded ==
  /\ Op
  /\ UNCHANGED hostVars
  /\ PlaybackPanelShown
  /\ ~isPlaying
  /\ CanIssue
  /\ IF Len(getActiveEvents) > 0
     THEN handlePlayRecordedEvents(getActiveEvents)
     ELSE /\ reqs' = <<>>
          /\ notes' = <<>>
          /\ UNCHANGED <<isPlaying, inflight>>
  /\ last' = [Last("playback", "ui:events") EXCEPT !.events = getActiveEvents]
  /\ UNCHANGED <<currentView, macros, isRecording, recordedEvents,
                 isAlwaysOnTop, isMiniMode, selectedPlaybackMacroId,
                 recordingSettings, now>>
  /\ DiscreteSync
  /\ showInBanner

\* await invoke("play_macro") resolved, then finally
handlePlayRecordedEvents_then(i) ==
  /\ inflight[i].cmd = "play_macro"
  /\ inflight[i].src = "events"
  /\ isPlaying' = FALSE
  /\ notes' = <<>>
  /\ inflight' = RemoveAt(inflight, i)
  /\ last' = [Last("playback:resolved", "ui:events") EXCEPT !.stray = ~isPlaying]
  /\ reqs' = <<>>
  /\ UNCHANGED <<currentView, macros, isRecording, recordedEvents,
                 isAlwaysOnTop, isMiniMode, selectedPlaybackMacroId,
                 recordingSettings, refs, now>>
  /\ UNCHANGED <<ops, hostVars>>
  /\ showInBanner

\* await invoke("play_macro") rejected: catch, then finally
handlePlayRecordedEvents_catch(i) ==
  /\ inflight[i].cmd = "play_macro"
  /\ inflight[i].src = "events"
  /\ isPlaying' = FALSE
  /\ notes' = handleNotify("Failed to play", "error")
  /\ inflight' = RemoveAt(inflight, i)
  /\ last' = [Last("playback:rejected", "ui:events")
                EXCEPT !.ok = FALSE, !.stray = ~isPlaying]
  /\ reqs' = <<>>
  /\ UNCHANGED <<currentView, macros, isRecording, recordedEvents,
                 isAlwaysOnTop, isMiniMode, selectedPlaybackMacroId,
                 recordingSettings, refs, now>>
  /\ UNCHANGED <<ops, hostVars>>
  /\ showInBanner

\* the macros a click can hand to handlePlayMacro: any row of the macro list,
\* or the selected macro through MiniRecordingPanel.handlePlayClick
PlayableMacros ==
  IF isMiniMode
  THEN IF MiniPlayButtonEnabled /\ ~isPlaying
       THEN LET hit == find(macros, selectedPlaybackMacroId)
            IN IF hit = {} THEN {}
               ELSE {macros[CHOOSE k \in hit : \A j \in hit : k <= j]}
       ELSE {}
  ELSE IF currentView = "macros" THEN {macros[k] : k \in 1..Len(macros)}
       ELSE {}

\* handlePlayMacro(macro), synchronous segment
handlePlayMacro(macro) ==
  /\ Op
  /\ UNCHANGED hostVars
  /\ macro \in PlayableMacros
  /\ CanIssue
  /\ isPlaying' = TRUE
  /\ notes' = handleNotify("Playing macro", "info")
  /\ reqs' = << Request("play_macro", macro) >>
  /\ inflight' = Append(inflight, Task("play_macro", "macro", NoCap))
  /\ last' = [Last("playback", "ui:macro") EXCEPT !.events = macro.events,
                                                  !.id = macro.id]
  /\ UNCHANGED <<currentView, macros, isRecording, recordedEvents,
                 isAlwaysOnTop, isMiniMode, selectedPlaybackMacroId,
                 recordingSettings, now>>
  /\ DiscreteSync
  /\ showInBanner

\* a completion that resets the whole session to idle
handlePlayMacro_then_resetsSession(i) ==
  /\ inflight[i].cmd = "play_macro"
  /\ inflight[i].src = "macro"
  /\ isPlaying' = FALSE
  /\ isRecording' = FALSE
  /\ notes' = handleNotify("Playback completed", "success")
  /\ inflight' = RemoveAt(inflight, i)
  /\ last' = [Last("playback:resolved", "ui:macro") EXCEPT !.stray = ~isPlaying]
  /\ reqs' = <<>>
  /\ UNCHANGED <<currentView, macros, recordedEvents, isAlwaysOnTop,
                 isMiniMode, selectedPlaybackMacroId, recordingSettings, refs,
                 now>>
  /\ UNCHANGED <<ops, hostVars>>
  /\ showInBanner

handlePlayMacro_then(i) ==
  /\ inflight[i].cmd = "play_macro"
  /\ inflight[i].src = "macro"
  /\ isPlaying' = FALSE
  /\ notes' = handleNotify("Playback completed", "success")
  /\ inflight' = RemoveAt(inflight, i)
  /\ last' = [Last("playback:resolved", "ui:macro") EXCEPT !.stray = ~isPlaying]
  /\ reqs' = <<>>
  /\ UNCHANGED <<currentView, macros, isRecording, recordedEvents,
                 isAlwaysOnTop, isMiniMode, selectedPlaybackMacroId,
                 recordingSettings, refs, now>>
  /\ UNCHANGED <<ops, hostVars>>
  /\ showInBanner

\* the catch handler without the finally block
handlePlayMacro_catch_noFinally(i) ==
  /\ inflight[i].cmd = "play_macro"
  /\ inflight[i].src = "macro"
  /\ notes' = handleNotify("Failed to play macro", "error")
  /\ inflight' = RemoveAt(inflight, i)
  /\ last' = [Last("playback:rejected", "ui:macro")
                EXCEPT !.ok = FALSE, !.stray = ~isPlaying]
  /\ reqs' = <<>>
  /\ UNCHANGED <<currentView, macros, isRecording, isPlaying, recordedEvents,
                 isAlwaysOnTop, isMiniMode, selectedPlaybackMacroId,
                 recordingSettings, refs, now>>
  /\ UNCHANGED <<ops, hostVars>>
  /\ showInBanner

handlePlayMacro_catch(i) ==
  /\ inflight[i].cmd = "play_macro"
  /\ inflight[i].src = "macro"
  /\ isPlaying' = FALSE
  /\ notes' = handleNotify("Failed to play macro", "error")
  /\ inflight' = RemoveAt(inflight, i)
  /\ last' = [Last("playback:rejected", "ui:macro")
                EXCEPT !.ok = FALSE, !.stray = ~isPlaying]
  /\ reqs' = <<>>
  /\ UNCHANGED <<currentView, macros, isRecording, recordedEvents,
                 isAlwaysOnTop, isMiniMode, selectedPlaybackMacroId,
                 recordingSettings, refs, now>>
  /\ UNCHANGED <<ops, hostVars>>
  /\ showInBanner

\* a stop that also drops the selection
handleStopPlayback_clearsSelection ==
  /\ Op
  /\ UNCHANGED hostVars
  /\ isPlaying
  /\ PlaybackPanelShown \/ MiniPlayButtonEnabled
  /\ isPlaying' = FALSE
  /\ selectedPlaybackMacroId' = ""
  /\ last' = Last("stopPlayback", "ui")
  /\ reqs' = <<>>
  /\ notes' = <<>>
  /\ UNCHANGED <<currentView, macros, isRecording, recordedEvents,
                 isAlwaysOnTop, isMiniMode, recordingSettings, inflight, now>>
  /\ DiscreteSync
  /\ showInBanner

\* handleStopPlayback: the playback panel's button and the Mini play button
\* while isPlaying
handleStopPlayback ==
  /\ Op
  /\ UNCHANGED hostVars
  /\ isPlaying
  /\ PlaybackPanelShown \/ MiniPlayButtonEnabled
  /\ isPlaying' = FALSE
  /\ last' = Last("stopPlayback", "ui")
  /\ reqs' = <<>>
  /\ notes' = <<>>
  /\ UNCHANGED <<currentView, macros, isRecording, recordedEvents,
                 isAlwaysOnTop, isMiniMode, selectedPlaybackMacroId,
                 recordingSettings, inflight, now>>
  /\ DiscreteSync
  /\ showInBanner

\* listen("hotkey:playback-start", ...)
hotkeyPlaybackStart ==
  /\ Op
  /\ UNCHANGED hostVars
  /\ IF ~settingsGate /\ playbackStartGate
     THEN /\ CanIssue
          /\ isPlaying' = TRUE
          /\ reqs' = << Request("play_macro",
                          tempMacro(refs.recordedEvents, refs.recordingSettings)) >>
          /\ inflight' = Append(inflight, Task("play_macro", "hotkey", NoCap))
          /\ last' = [Last("hotkey:playback-start", "hotkey")
                        EXCEPT !.events = refs.recordedEvents]
          /\ notes' = <<>>
          /\ UNCHANGED <<currentView, macros, isRecording, recordedEvents,
                         isAlwaysOnTop, isMiniMode, selectedPlaybackMacroId,
                         recordingSettings, refs, now>>
     ELSE Ignored("hotkey:playback-start")
  /\ showInBanner

\* .then(() => info(...)).finally(() => setIsPlaying(false))
hotkeyPlaybackStart_then(i) ==
  /\ inflight[i].cmd = "play_macro"
  /\ inflight[i].src = "hotkey"
  /\ isPlaying' = FALSE
  /\ notes' = <<>>
  /\ inflight' = RemoveAt(inflight, i)
  /\ last' = [Last("playback:resolved", "hotkey") EXCEPT !.stray = ~isPlaying]
  /\ reqs' = <<>>
  /\ UNCHANGED <<currentView, macros, isRecording, recordedEvents,
                 isAlwaysOnTop, isMiniMode, selectedPlaybackMacroId,
                 recordingSettings, refs, now>>
  /\ UNCHANGED <<ops, hostVars>>
  /\ showInBanner

\* .catch((err) => banner or alert).finally(() => setIsPlaying(false))
hotkeyPlaybackStart_catch(i) ==
  /\ inflight[i].cmd = "play_macro"
  /\ inflight[i].src = "hotkey"
  /\ isPlaying' = FALSE
  /\ notes' = IF refs.isMiniMode
              THEN <<[channel |-> "banner", type |-> "none", msg |-> "Info"]>>
              ELSE <<[channel |-> "alert", type |-> "none",
                      msg |-> "Failed to play"]>>
  /\ inflight' = RemoveAt(inflight, i)
  /\ last' = [Last("playback:rejected", "hotkey")
                EXCEPT !.ok = FALSE, !.stray = ~isPlaying]
  /\ reqs' = <<>>
  /\ UNCHANGED <<currentView, macros, isRecording, recordedEvents,
                 isAlwaysOnTop, isMiniMode, selectedPlaybackMacroId,
                 recordingSettings, refs, now>>
  /\ UNCHANGED <<ops, hostVars>>
  /\ showInBanner

\* listen("hotkey:playback-stop", ...)
hotkeyPlaybackStop ==
  /\ Op
  /\ UNCHANGED hostVars
  /\ IF ~settingsGate /\ playbackStopGate
     THEN /\ isPlaying' = FALSE
          /\ last' = Last("hotkey:playback-stop", "hotkey")
          /\ reqs' = <<>>
          /\ notes' = <<>>
          /\ UNCHANGED <<currentView, macros, isRecording, recordedEvents,
                         isAlwaysOnTop, isMiniMode, selectedPlaybackMacroId,
                         recordingSettings, refs, inflight, now>>
     ELSE Ignored("hotkey:playback-stop")
  /\ showInBanner

\* ---------------------------------------------------------------- import
\* handleImportMacro: the Import button of the macro list
handleImportMacro ==
  /\ Op
  /\ UNCHANGED hostVars
  /\ ~isMiniMode
  /\ currentView = "macros"
  /\ CanIssue
  /\ inflight' = Append(inflight, Task("import_macro", "ui", NoCap))
  /\ reqs' = << Request("import_macro", NoCap) >>
  /\ last' = Last("importMacro", "ui")
  /\ notes' = <<>>
  /\ UNCHANGED <<currentView, macros, isRecording, isPlaying, recordedEvents,
                 isAlwaysOnTop, isMiniMode, selectedPlaybackMacroId,
                 recordingSettings, refs, now>>
  /\ showInBanner

\* the imported macro put in front of the library instead of at its end
handleImportMacro_then_prepends(i, macro) ==
  /\ inflight[i].cmd = "import_macro"
  /\ Len(macros) < MaxMacros
  /\ macros' = <<macro>> \o macros
  /\ reqs' = << Request("save_macro", macro) >>
  /\ inflight' = Append(RemoveAt(inflight, i),
                        Task("save_macro", "import", [id |-> macro.id]))
  /\ last' = [Last("importMacro:resolved", "ui") EXCEPT !.id = macro.id,
                                                        !.events = macro.events]
  /\ notes' = <<>>
  /\ UNCHANGED <<currentView, isRecording, isPlaying, recordedEvents,
                 isAlwaysOnTop, isMiniMode, selectedPlaybackMacroId,
                 recordingSettings, refs, now>>
  /\ UNCHANGED <<ops, hostVars>>
  /\ showInBanner

\* if (macro) { setMacros((prev) => [...prev, macro]); await save_macro ... }
handleImportMacro_then(i, macro) ==
  /\ inflight[i].cmd = "import_macro"
  /\ Len(macros) < MaxMacros
  /\ macros' = Append(macros, macro)
  /\ reqs' = << Request("save_macro", macro) >>
  /\ inflight' = Append(RemoveAt(inflight, i),
                        Task("save_macro", "import", [id |-> macro.id]))
  /\ last' = [Last("importMacro:resolved", "ui") EXCEPT !.id = macro.id,
                                                        !.events = macro.events]
  /\ notes' = <<>>
  /\ UNCHANGED <<currentView, isRecording, isPlaying, recordedEvents,
                 isAlwaysOnTop, isMiniMode, selectedPlaybackMacroId,
                 recordingSettings, refs, now>>
  /\ UNCHANGED <<ops, hostVars>>
  /\ showInBanner

\* import_macro returned null (dialog cancelled) or was rejected (logged)
handleImportMacro_nothing(i, ok) ==
  /\ inflight[i].cmd = "import_macro"
  /\ inflight' = RemoveAt(inflight, i)
  /\ last' = [Last("importMacro:nothing", "ui") EXCEPT !.ok = ok]
  /\ reqs' = <<>>
  /\ notes' = <<>>
  /\ UNCHANGED <<currentView, macros, isRecording, isPlaying, recordedEvents,
                 isAlwaysOnTop, isMiniMode, selectedPlaybackMacroId,
                 recordingSettings, refs, now>>
  /\ UNCHANGED <<ops, hostVars>>
  /\ showInBanner

\* await invoke("save_macro") of the import: notify on success, log on failure
handleImportMacro_saveSettled(i, ok) ==
  /\ inflight[i].cmd = "save_macro"
  /\ inflight[i].src = "import"
  /\ notes' = IF ok THEN handleNotify("Macro imported", "success") ELSE <<>>
  /\ inflight' = RemoveAt(inflight, i)
  /\ last' = [Last("importMacro:saveSettled", "ui") EXCEPT !.ok = ok]
  /\ reqs' = <<>>
  /\ UNCHANGED <<currentView, macros, isRecording, isPlaying, recordedEvents,
                 isAlwaysOnTop, isMiniMode, selectedPlaybackMacroId,
                 recordingSettings, refs, now>>
  /\ UNCHANGED <<ops, hostVars>>
  /\ showInBanner

\* ---------------------------------------------------------------- export
\* handleExportMacro(macro): the Export button of a macro of the list
handleExportMacro(macro) ==
  /\ Op
  /\ UNCHANGED hostVars
  /\ ~isMiniMode
  /\ currentView = "macros"
  /\ CanIssue
  /\ inflight' = Append(inflight, Task("export_macro", "ui", [id |-> macro.id]))
  /\ reqs' = << Request("export_macro", macro) >>
  /\ last' = [Last("exportMacro", "ui") EXCEPT !.id = macro.id]
  /\ notes' = <<>>
  /\ UNCHANGED <<currentView, macros, isRecording, isPlaying, recordedEvents,
                 isAlwaysOnTop, isMiniMode, selectedPlaybackMacroId,
                 recordingSettings, refs, now>>
  /\ showInBanner

\* export_macro resolves, or rejects and is logged
handleExportMacro_settled(i, ok) ==
  /\ inflight[i].cmd = "export_macro"
  /\ inflight' = RemoveAt(inflight, i)
  /\ last' = [Last("exportMacro:settled", "ui") EXCEPT !.ok = ok,
                                                       !.id = inflight[i].cap.id]
  /\ reqs' = <<>>
  /\ notes' = <<>>
  /\ UNCHANGED <<currentView, macros, isRecording, isPlaying, recordedEvents,
                 isAlwaysOnTop, isMiniMode, selectedPlaybackMacroId,
                 recordingSettings, refs, now>>
  /\ UNCHANGED <<ops, hostVars>>
  /\ showInBanner

\* ---------------------------------------------------------------- delete
\* macros.filter((m) => m.id !== macroId)
without(ms, macroId) == SelectSeq(ms, LAMBDA m : m.id # macroId)

\* the delete button of a MacroList row
DeletableIds ==
  IF ~isMiniMode /\ currentView = "macros"
  THEN {macros[k].id : k \in 1..Len(macros)}
  ELSE {}

\* handleDeleteMacro up to `await invoke("delete_macro", { macroId })`; the
\* closure keeps the macros, the selection and the isAlwaysOnTop of the render
\* the button belongs to
handleDeleteMacro(macroId) ==
  /\ Op
  /\ UNCHANGED hostVars
  /\ macroId \in DeletableIds
  /\ CanIssue
  /\ macros' = without(macros, macroId)
  /\ reqs' = << Request("delete_macro", [macroId |-> macroId]) >>
  /\ inflight' = Append(inflight,
        Task("delete_macro", "ui",
             [macroId |-> macroId, macros |-> macros,
              selectedPlaybackMacroId |-> selectedPlaybackMacroId,
              isAlwaysOnTop |-> isAlwaysOnTop]))
  /\ last' = [Last("deleteMacro", "ui") EXCEPT !.id = macroId]
  /\ notes' = <<>>
  /\ UNCHANGED <<currentView, isRecording, isPlaying, recordedEvents,
                 isAlwaysOnTop, isMiniMode, selectedPlaybackMacroId,
                 recordingSettings, now>>
  /\ DiscreteSync
  /\ showInBanner

\* the selection handleDeleteMacro falls back to: remaining[0].id or ""
fallbackSelection(remaining) ==
  IF Len(remaining) > 0 THEN remaining[1].id ELSE ""

\* the continuation without the reselection
handleDeleteMacro_then_keepsSelection(i) ==
  /\ inflight[i].cmd = "delete_macro"
  /\ reqs' = <<>>
  /\ inflight' = RemoveAt(inflight, i)
  /\ notes' = handleNotify("Macro deleted", "success")
  /\ last' = [Last("deleteMacro:resolved", "ui")
                EXCEPT !.id = inflight[i].cap.macroId]
  /\ UNCHANGED <<currentView, macros, isRecording, isPlaying, recordedEvents,
                 isAlwaysOnTop, isMiniMode, selectedPlaybackMacroId,
                 recordingSettings, refs, now>>
  /\ UNCHANGED <<ops, hostVars>>
  /\ showInBanner

\* delete_macro resolved: if (selectedPlaybackMacroId === macroId) reselect,
\* then notify
handleDeleteMacro_then(i) ==
  /\ inflight[i].cmd = "delete_macro"
  /\ LET cap == inflight[i].cap
         remaining == without(cap.macros, cap.macroId)
     IN IF cap.selectedPlaybackMacroId = cap.macroId
        THEN handleMacroSelect(fallbackSelection(remaining),
                               cap.isAlwaysOnTop, RemoveAt(inflight, i))
        ELSE /\ reqs' = <<>>
             /\ inflight' = RemoveAt(inflight, i)
             /\ UNCHANGED selectedPlaybackMacroId
  /\ notes' = handleNotify("Macro deleted", "success")
  /\ last' = [Last("deleteMacro:resolved", "ui")
                EXCEPT !.id = inflight[i].cap.macroId]
  /\ UNCHANGED <<currentView, macros, isRecording, isPlaying, recordedEvents,
                 isAlwaysOnTop, isMiniMode, recordingSettings, refs, now>>
  /\ UNCHANGED <<ops, hostVars>>
  /\ showInBanner

\* a catch block that puts the deleted macro back
handleDeleteMacro_catch_restores(i) ==
  /\ inflight[i].cmd = "delete_macro"
  /\ inflight' = RemoveAt(inflight, i)
  /\ macros' = inflight[i].cap.macros
  /\ notes' = handleNotify("Failed to delete macro", "error")
  /\ last' = [Last("deleteMacro:rejected", "ui")
                EXCEPT !.ok = FALSE, !.id = inflight[i].cap.macroId]
  /\ reqs' = <<>>
  /\ UNCHANGED <<currentView, isRecording, isPlaying, recordedEvents,
                 isAlwaysOnTop, isMiniMode, selectedPlaybackMacroId,
                 recordingSettings, refs, now>>
  /\ UNCHANGED <<ops, hostVars>>
  /\ showInBanner

\* delete_macro rejected: logged and notified, nothing restored
handleDeleteMacro_catch(i) ==
  /\ inflight[i].cmd = "delete_macro"
  /\ inflight' = RemoveAt(inflight, i)
  /\ notes' = handleNotify("Failed to delete macro", "error")
  /\ last' = [Last("deleteMacro:rejected", "ui")
                EXCEPT !.ok = FALSE, !.id = inflight[i].cap.macroId]
  /\ reqs' = <<>>
  /\ UNCHANGED <<currentView, macros, isRecording, isPlaying, recordedEvents,
                 isAlwaysOnTop, isMiniMode, selectedPlaybackMacroId,
                 recordingSettings, refs, now>>
  /\ UNCHANGED <<ops, hostVars>>
  /\ showInBanner

\* ------------------------------------------------- view, options, window
\* onViewChange={setCurrentView}: the sidebar, absent in Mini mode
UIViewChange(view) ==
  /\ Op
  /\ UNCHANGED hostVars
  /\ ~isMiniMode
  /\ view # currentView
  /\ currentView' = view
  /\ last' = Last("viewChange", "ui")
  /\ reqs' = <<>>
  /\ notes' = <<>>
  /\ UNCHANGED <<macros, isRecording, isPlaying, recordedEvents, isAlwaysOnTop,
                 isMiniMode, selectedPlaybackMacroId, recordingSettings,
                 inflight, now>>
  /\ DiscreteSync
  /\ showInBanner

\* the checkboxes of RecordingPanel (disabled={isRecording}) and
\* MiniRecordingPanel.toggleSetting
UISettingsChange(key) ==
  /\ Op
  /\ UNCHANGED hostVars
  /\ \/ isMiniMode
     \/ currentView = "recording" /\ ~isRecording
  /\ recordingSettings' = [recordingSettings EXCEPT ![key] = ~recordingSettings[key]]
  /\ last' = Last("settingsChange", "ui")
  /\ reqs' = <<>>
  /\ notes' = <<>>
  /\ UNCHANGED <<currentView, macros, isRecording, isPlaying, recordedEvents,
                 isAlwaysOnTop, isMiniMode, selectedPlaybackMacroId, inflight,
                 now>>
  /\ DiscreteSync
  /\ showInBanner

\* toggleMiniMode up to `await setWindowSize(...)` of snapToMini / snapToMedium
toggleMiniMode ==
  /\ Op
  /\ UNCHANGED hostVars
  /\ CanIssue
  /\ inflight' = Append(inflight,
        Task("set_size", "toggleMiniMode", [mini |-> ~isMiniMode]))
  /\ reqs' = << Request("set_size",
                  IF isMiniMode THEN [width |-> 1000, height |-> 700]
                  ELSE [width |-> 355, height |-> 140]) >>
  /\ last' = Last("toggleMiniMode", "ui")
  /\ notes' = <<>>
  /\ UNCHANGED <<currentView, macros, isRecording, isPlaying, recordedEvents,
                 isAlwaysOnTop, isMiniMode, selectedPlaybackMacroId,
                 recordingSettings, refs, now>>
  /\ showInBanner

\* snapToMini after setWindowSize settled (setWindowSize swallows a failure)
snapToMini(i) ==
  /\ inflight[i].cmd = "set_size"
  /\ inflight[i].cap.mini
  /\ isMiniMode' = TRUE
  /\ reqs' = << Request("update_app_settings", [alwaysOnTop |-> TRUE]) >>
  /\ inflight' = Append(RemoveAt(inflight, i),
                        Task("update_app_settings", "snapToMini",
                             [settings |-> [alwaysOnTop |-> TRUE]]))
  /\ last' = Last("snapToMini", "window")
  /\ notes' = <<>>
  /\ UNCHANGED <<currentView, macros, isRecording, isPlaying, recordedEvents,
                 isAlwaysOnTop, selectedPlaybackMacroId, recordingSettings,
                 refs, now>>
  /\ UNCHANGED <<ops, hostVars>>
  /\ showInBanner

\* a failure of the always-on-top request that takes the window out of Mini
snapToMini_settled_rollsBack(i, ok) ==
  /\ inflight[i].cmd = "update_app_settings"
  /\ inflight[i].src = "snapToMini"
  /\ inflight' = RemoveAt(inflight, i)
  /\ isMiniMode' = IF ok THEN isMiniMode ELSE FALSE
  /\ last' = [Last("snapToMini:settled", "engine") EXCEPT !.ok = ok]
  /\ reqs' = <<>>
  /\ notes' = <<>>
  /\ UNCHANGED <<currentView, macros, isRecording, isPlaying, recordedEvents,
                 isAlwaysOnTop, selectedPlaybackMacroId, recordingSettings,
                 refs, now>>
  /\ UNCHANGED <<ops, hostVars>>
  /\ showInBanner

\* the always-on-top request of snapToMini resolves, or rejects and is logged
snapToMini_settled(i, ok) ==
  /\ inflight[i].cmd = "update_app_settings"
  /\ inflight[i].src = "snapToMini"
  /\ inflight' = RemoveAt(inflight, i)
  /\ last' = [Last("snapToMini:settled", "engine") EXCEPT !.ok = ok]
  /\ reqs' = <<>>
  /\ notes' = <<>>
  /\ UNCHANGED <<currentView, macros, isRecording, isPlaying, recordedEvents,
                 isAlwaysOnTop, isMiniMode, selectedPlaybackMacroId,
                 recordingSettings, refs, now>>
  /\ UNCHANGED <<ops, hostVars>>
  /\ showInBanner

\* snapToMedium after setWindowSize settled
snapToMedium(i) ==
  /\ inflight[i].cmd = "set_size"
  /\ ~inflight[i].cap.mini
  /\ isMiniMode' = FALSE
  /\ inflight' = RemoveAt(inflight, i)
  /\ last' = Last("snapToMedium", "window")
  /\ reqs' = <<>>
  /\ notes' = <<>>
  /\ UNCHANGED <<currentView, macros, isRecording, isPlaying, recordedEvents,
                 isAlwaysOnTop, selectedPlaybackMacroId, recordingSettings,
                 refs, now>>
  /\ UNCHANGED <<ops, hostVars>>
  /\ showInBanner

\* --------------------------------------------------------------- startup
\* what get_app_settings may answer
AppSettingsValues ==
  [alwaysOnTop : StoredAlwaysOnTop, lastSelectedMacroId : StoredSelections]

\* loadSettings: const settings = await invoke("get_app_settings"); ...
loadSettings_then(i, settings) ==
  /\ inflight[i].cmd = "get_app_settings"
  /\ inflight[i].src = "loadSettings"
  /\ isAlwaysOnTop' = settings.alwaysOnTop
  /\ selectedPlaybackMacroId' =
       IF settings.lastSelectedMacroId # "" THEN settings.lastSelectedMacroId
       ELSE selectedPlaybackMacroId
  /\ inflight' = RemoveAt(inflight, i)
  /\ last' = [Last("loadSettings:resolved", "startup")
                EXCEPT !.id = settings.lastSelectedMacroId]
  /\ reqs' = <<>>
  /\ notes' = <<>>
  /\ UNCHANGED <<currentView, macros, isRecording, isPlaying, recordedEvents,
                 isMiniMode, recordingSettings, refs, now>>
  /\ UNCHANGED <<ops, hostVars>>
  /\ showInBanner

loadSettings_catch(i) ==
  /\ inflight[i].cmd = "get_app_settings"
  /\ inflight[i].src = "loadSettings"
  /\ inflight' = RemoveAt(inflight, i)
  /\ last' = [Last("loadSettings:rejected", "startup") EXCEPT !.ok = FALSE]
  /\ reqs' = <<>>
  /\ notes' = <<>>
  /\ UNCHANGED <<currentView, macros, isRecording, isPlaying, recordedEvents,
                 isAlwaysOnTop, isMiniMode, selectedPlaybackMacroId,
                 recordingSettings, refs, now>>
  /\ UNCHANGED <<ops, hostVars>>
  /\ showInBanner

\* initialize: Promise.all([load_all_macros, is_recording, get_hotkeys])
\* resolved, up to `await invoke("get_app_settings")`
initialize_then(i, loadedMacros, recordingStatus) ==
  /\ inflight[i].cmd = "initialize"
  /\ macros' = loadedMacros
  /\ isRecording' = IF recordingStatus THEN TRUE ELSE isRecording
  /\ IF Len(loadedMacros) > 0
     THEN /\ reqs' = << Request("get_app_settings", NoCap) >>
          /\ inflight' = Append(RemoveAt(inflight, i),
                Task("get_app_settings", "initialize",
                     [loadedMacros |-> loadedMacros]))
     ELSE /\ reqs' = <<>>
          /\ inflight' = RemoveAt(inflight, i)
  /\ last' = [Last("initialize:resolved", "startup") EXCEPT !.ok = recordingStatus]
  /\ notes' = <<>>
  /\ UNCHANGED <<currentView, isPlaying, recordedEvents, isAlwaysOnTop,
                 isMiniMode, selectedPlaybackMacroId, recordingSettings, refs,
                 now>>
  /\ UNCHANGED <<ops, hostVars>>
  /\ showInBanner

\* one of the three startup requests was rejected: logged
initialize_catch(i) ==
  /\ inflight[i].cmd = "initialize"
  /\ inflight' = RemoveAt(inflight, i)
  /\ last' = [Last("initialize:rejected", "startup") EXCEPT !.ok = FALSE]
  /\ reqs' = <<>>
  /\ notes' = <<>>
  /\ UNCHANGED <<currentView, macros, isRecording, isPlaying, recordedEvents,
                 isAlwaysOnTop, isMiniMode, selectedPlaybackMacroId,
                 recordingSettings, refs, now>>
  /\ UNCHANGED <<ops, hostVars>>
  /\ showInBanner

\* if (!targetId || !loadedMacros.find((m) => m.id === targetId))
selectionStale(targetId, loadedMacros) ==
  targetId = "" \/ find(loadedMacros, targetId) = {}

\* initialize: get_app_settings resolved; verify the target, persist a default
initialize_settings(i, settings) ==
  /\ inflight[i].cmd = "get_app_settings"
  /\ inflight[i].src = "initialize"
  /\ LET loadedMacros == inflight[i].cap.loadedMacros
         targetId == settings.lastSelectedMacroId
     IN IF selectionStale(targetId, loadedMacros)
        THEN /\ reqs' = << Request("update_app_settings",
                             [alwaysOnTop |-> settings.alwaysOnTop,
                              lastSelectedMacroId |-> loadedMacros[1].id]) >>
             /\ inflight' = Append(RemoveAt(inflight, i),
                   Task("update_app_settings", "initialize",
                        [loadedMacros |-> loadedMacros,
                         targetId |-> loadedMacros[1].id,
                         settings |->
                           [alwaysOnTop |-> settings.alwaysOnTop,
                            lastSelectedMacroId |-> loadedMacros[1].id]]))
             /\ UNCHANGED selectedPlaybackMacroId
        ELSE /\ selectedPlaybackMacroId' = targetId
             /\ reqs' = <<>>
             /\ inflight' = RemoveAt(inflight, i)
  /\ last' = [Last("initialize:settings", "startup")
                EXCEPT !.id = settings.lastSelectedMacroId]
  /\ notes' = <<>>
  /\ UNCHANGED <<currentView, macros, isRecording, isPlaying, recordedEvents,
                 isAlwaysOnTop, isMiniMode, recordingSettings, refs, now>>
  /\ UNCHANGED <<ops, hostVars>>
  /\ showInBanner

\* catch (e) { setSelectedPlaybackMacroId(loadedMacros[0].id) }, reached from
\* get_app_settings
initialize_settingsFailed(i) ==
  /\ inflight[i].cmd = "get_app_settings"
  /\ inflight[i].src = "initialize"
  /\ selectedPlaybackMacroId' = inflight[i].cap.loadedMacros[1].id
  /\ inflight' = RemoveAt(inflight, i)
  /\ last' = [Last("initialize:settingsFailed", "startup") EXCEPT !.ok = FALSE]
  /\ reqs' = <<>>
  /\ notes' = <<>>
  /\ UNCHANGED <<currentView, macros, isRecording, isPlaying, recordedEvents,
                 isAlwaysOnTop, isMiniMode, recordingSettings, refs, now>>
  /\ UNCHANGED <<ops, hostVars>>
  /\ showInBanner

\* initialize: update_app_settings settled; setSelectedPlaybackMacroId either
\* after the await (targetId) or in the inner catch (loadedMacros[0].id)
initialize_persistSettled(i, ok) ==
  /\ inflight[i].cmd = "update_app_settings"
  /\ inflight[i].src = "initialize"
  /\ selectedPlaybackMacroId' =
       IF ok THEN inflight[i].cap.targetId
       ELSE inflight[i].cap.loadedMacros[1].id
  /\ inflight' = RemoveAt(inflight, i)
  /\ last' = [Last("initialize:persistSettled", "startup") EXCEPT !.ok = ok]
  /\ reqs' = <<>>
  /\ notes' = <<>>
  /\ UNCHANGED <<currentView, macros, isRecording, isPlaying, recordedEvents,
                 isAlwaysOnTop, isMiniMode, recordingSettings, refs, now>>
  /\ UNCHANGED <<ops, hostVars>>
  /\ showInBanner

\* ------------------------------------------------------------------ Next
Tasks == 1..Len(inflight)

Next ==
  \/ SyncRefs
  \/ \E id \in SelectableIds : UISelectMacro(id)
  \/ \E i \in Tasks, ok \in BOOLEAN : handleMacroSelect_settled(i, ok)
  \/ handleStartRecording
  \/ \E i \in Tasks : handleStartRecording_then(i)
  \/ \E i \in Tasks : handleStartRecording_catch(i)
  \/ handleStopRecording
  \/ \E i \in Tasks, events \in EventSeqs, t \in 1..MaxClock :
        handleStopRecording_then(i, events, t)
  \/ \E i \in Tasks : handleStopRecording_catch(i)
  \/ \E i \in Tasks : handleStopRecording_saved(i)
  \/ \E i \in Tasks : handleStopRecording_saveFailed(i)
  \/ hotkeyRecordStart
  \/ \E i \in Tasks : hotkeyRecordStart_then(i)
  \/ \E i \in Tasks : hotkeyRecordStart_catch(i)
  \/ hotkeyRecordStop
  \/ \E i \in Tasks, events \in EventSeqs, t \in 1..MaxClock :
        hotkeyRecordStop_then(i, events, t)
  \/ \E i \in Tasks : hotkeyRecordStop_catch(i)
  \/ \E i \in Tasks, ok \in BOOLEAN : hotkeyRecordStop_saveSettled(i, ok)
  \/ UIPlayRecorded
  \/ \E i \in Tasks : handlePlayRecordedEvents_then(i)
  \/ \E i \in Tasks : handlePlayRecordedEvents_catch(i)
  \/ \E m \in PlayableMacros : handlePlayMacro(m)
  \/ \E i \in Tasks : handlePlayMacro_then(i)
  \/ \E i \in Tasks : handlePlayMacro_catch(i)
  \/ handleStopPlayback
  \/ hotkeyPlaybackStart
  \/ \E i \in Tasks : hotkeyPlaybackStart_then(i)
  \/ \E i \in Tasks : hotkeyPlaybackStart_catch(i)
  \/ hotkeyPlaybackStop
  \/ handleImportMacro
  \/ \E i \in Tasks, m \in ExternalMacros : handleImportMacro_then(i, m)
  \/ \E i \in Tasks, ok \in BOOLEAN : handleImportMacro_nothing(i, ok)
  \/ \E i \in Tasks, ok \in BOOLEAN : handleImportMacro_saveSettled(i, ok)
  \/ \E k \in 1..Len(macros) : handleExportMacro(macros[k])
  \/ \E i \in Tasks, ok \in BOOLEAN : handleExportMacro_settled(i, ok)
  \/ \E id \in DeletableIds : handleDeleteMacro(id)
  \/ \E i \in Tasks : handleDeleteMacro_then(i)
  \/ \E i \in Tasks : handleDeleteMacro_catch(i)
  \/ \E view \in ViewType : UIViewChange(view)
  \/ \E key \in SettingKeys : UISettingsChange(key)
  \/ toggleMiniMode
  \/ \E i \in Tasks : snapToMini(i)
  \/ \E i \in Tasks, ok \in BOOLEAN : snapToMini_settled(i, ok)
  \/ \E i \in Tasks : snapToMedium(i)
  \/ \E i \in Tasks, s \in AppSettingsValues : loadSettings_then(i, s)
  \/ \E i \in Tasks : loadSettings_catch(i)
  \/ \E i \in Tasks, l \in StoredLibraries, r \in BOOLEAN : initialize_then(i, l, r)
  \/ \E i \in Tasks : initialize_catch(i)
  \/ \E i \in Tasks, s \in AppSettingsValues : initialize_settings(i, s)
  \/ \E i \in Tasks : initialize_settingsFailed(i)
  \/ \E i \in Tasks, ok \in BOOLEAN : initialize_persistSettled(i, ok)

Spec == Init /\ [][Next]_vars

\* every play_macro request eventually resolves or rejects
PlaySettles ==
  \E i \in Tasks :
    \/ handlePlayRecordedEvents_then(i) \/ handlePlayRecordedEvents_catch(i)
    \/ handlePlayMacro_then(i) \/ handlePlayMacro_catch(i)
    \/ hotkeyPlaybackStart_then(i) \/ hotkeyPlaybackStart_catch(i)

FairSpec == Spec /\ WF_vars(PlaySettles)

\* ---------------------------------------------- engine-held app settings
\* updateAppSettings(partial): the fields given replace the stored ones
mergeSettings(stored, partial) ==
  [k \in DOMAIN stored |->
     IF k \in DOMAIN partial THEN partial[k] ELSE stored[k]]

Pending(i) == inflight[i].done = "pending"

\* the engine processes an update_app_settings request: it stores the
\* settings, or fails and stores nothing; the reply travels back afterwards
engine_update_app_settings(i, ok) ==
  /\ inflight[i].cmd = "update_app_settings"
  /\ Pending(i)
  /\ appSettings' = IF ok THEN mergeSettings(appSettings, inflight[i].cap.settings)
                    ELSE appSettings
  /\ inflight' = [inflight EXCEPT ![i].done = IF ok THEN "ok" ELSE "err"]
  /\ last' = [Last("engine:update_app_settings", "engine") EXCEPT !.ok = ok]
  /\ reqs' = <<>>
  /\ notes' = <<>>
  /\ UNCHANGED <<currentView, macros, isRecording, isPlaying, recordedEvents,
                 isAlwaysOnTop, isMiniMode, selectedPlaybackMacroId,
                 recordingSettings, refs, now, ops, winSize, debounceTimer,
                 time, resizeLog>>
  /\ UNCHANGED otherVars
  /\ showInBanner

\* the engine processes a get_app_settings request: the answer is what it
\* holds at that moment
engine_get_app_settings(i, ok) ==
  /\ inflight[i].cmd = "get_app_settings"
  /\ Pending(i)
  /\ inflight' = [inflight EXCEPT ![i].done = IF ok THEN "ok" ELSE "err",
                                  ![i].answer = IF ok THEN appSettings ELSE <<>>]
  /\ last' = [Last("engine:get_app_settings", "engine") EXCEPT !.ok = ok]
  /\ reqs' = <<>>
  /\ notes' = <<>>
  /\ UNCHANGED <<currentView, macros, isRecording, isPlaying, recordedEvents,
                 isAlwaysOnTop, isMiniMode, selectedPlaybackMacroId,
                 recordingSettings, refs, now, ops, appSettings, winSize,
                 debounceTimer, time, resizeLog>>
  /\ UNCHANGED otherVars
  /\ showInBanner

\* toggleAlwaysOnTop: the Always on Top switch of the settings panel, up to
\* `await invoke("update_app_settings", { settings: { alwaysOnTop: newState } })`
toggleAlwaysOnTop ==
  /\ Op
  /\ ~isMiniMode
  /\ currentView = "settings"
  /\ CanIssue
  /\ LET newState == ~isAlwaysOnTop
     IN /\ inflight' = Append(inflight,
                              Task("update_app_settings", "toggleAlwaysOnTop",
                                   [newState |-> newState,
                                    settings |-> [alwaysOnTop |-> newState]]))
        /\ reqs' = << Request("update_app_settings",
                              [alwaysOnTop |-> newState]) >>
  /\ last' = Last("toggleAlwaysOnTop", "ui")
  /\ notes' = <<>>
  /\ UNCHANGED <<currentView, macros, isRecording, isPlaying, recordedEvents,
                 isAlwaysOnTop, isMiniMode, selectedPlaybackMacroId,
                 recordingSettings, refs, now>>
  /\ UNCHANGED hostVars
  /\ showInBanner

pinMessage(newState) ==
  IF newState THEN "Window pinned to top" ELSE "Window unpinned"

\* setIsAlwaysOnTop(newState); handleNotify(..., "success")
toggleAlwaysOnTop_then(i) ==
  /\ inflight[i].cmd = "update_app_settings"
  /\ inflight[i].src = "toggleAlwaysOnTop"
  /\ isAlwaysOnTop' = inflight[i].cap.newState
  /\ notes' = handleNotify(pinMessage(inflight[i].cap.newState), "success")
  /\ inflight' = RemoveAt(inflight, i)
  /\ last' = Last("toggleAlwaysOnTop:resolved", "ui")
  /\ reqs' = <<>>
  /\ UNCHANGED <<currentView, macros, isRecording, isPlaying, recordedEvents,
                 isMiniMode, selectedPlaybackMacroId, recordingSettings, refs,
                 now>>
  /\ UNCHANGED <<ops, hostVars>>
  /\ showInBanner

\* catch: logError(...); handleNotify(<the same message>, "success")
toggleAlwaysOnTop_catch(i) ==
  /\ inflight[i].cmd = "update_app_settings"
  /\ inflight[i].src = "toggleAlwaysOnTop"
  /\ notes' = handleNotify(pinMessage(inflight[i].cap.newState), "success")
  /\ inflight' = RemoveAt(inflight, i)
  /\ last' = [Last("toggleAlwaysOnTop:rejected", "ui") EXCEPT !.ok = FALSE]
  /\ reqs' = <<>>
  /\ UNCHANGED <<currentView, macros, isRecording, isPlaying, recordedEvents,
                 isAlwaysOnTop, isMiniMode, selectedPlaybackMacroId,
                 recordingSettings, refs, now>>
  /\ UNCHANGED <<ops, hostVars>>
  /\ showInBanner

\* the id of a macro that is no longer in the library
DeletedId == "gone"

\* the settings the engine may hold at startup
StoredSettings ==
  [alwaysOnTop : StoredAlwaysOnTop,
   lastSelectedMacroId : StoredSelections \cup {DeletedId}]

\* the session with the engine's application settings resolved: requests for
\* them are answered from appSettings, every other answer stays arbitrary
SettingsInit ==
  /\ InitSession
  /\ InitWindow
  /\ appSettings \in StoredSettings
  /\ InitOther

Replied(i, ok) == inflight[i].done = (IF ok THEN "ok" ELSE "err")

SettingsNext ==
  \/ \E i \in Tasks, ok \in BOOLEAN : engine_update_app_settings(i, ok)
  \/ \E i \in Tasks, ok \in BOOLEAN : engine_get_app_settings(i, ok)
  \/ \E view \in ViewType : UIViewChange(view)
  \/ \E id \in SelectableIds : UISelectMacro(id)
  \/ \E i \in Tasks, ok \in BOOLEAN :
        Replied(i, ok) /\ handleMacroSelect_settled(i, ok)
  \/ toggleAlwaysOnTop
  \/ \E i \in Tasks : Replied(i, TRUE) /\ toggleAlwaysOnTop_then(i)
  \/ \E i \in Tasks : Replied(i, FALSE) /\ toggleAlwaysOnTop_catch(i)
  \/ \E id \in DeletableIds : handleDeleteMacro(id)
  \/ \E i \in Tasks : handleDeleteMacro_then(i)
  \/ \E i \in Tasks : handleDeleteMacro_catch(i)
  \/ toggleMiniMode
  \/ \E i \in Tasks : snapToMini(i)
  \/ \E i \in Tasks, ok \in BOOLEAN :
        Replied(i, ok) /\ snapToMini_settled(i, ok)
  \/ \E i \in Tasks : snapToMedium(i)
  \/ \E i \in Tasks :
        Replied(i, TRUE) /\ loadSettings_then(i, inflight[i].answer)
  \/ \E i \in Tasks : Replied(i, FALSE) /\ loadSettings_catch(i)
  \/ \E i \in Tasks, l \in StoredLibraries, r \in BOOLEAN : initialize_then(i, l, r)
  \/ \E i \in Tasks : initialize_catch(i)
  \/ \E i \in Tasks :
        Replied(i, TRUE) /\ initialize_settings(i, inflight[i].answer)
  \/ \E i \in Tasks : Replied(i, FALSE) /\ initialize_settingsFailed(i)
  \/ \E i \in Tasks, ok \in BOOLEAN :
        Replied(i, ok) /\ initialize_persistSettled(i, ok)

SettingsSpec == SettingsInit /\ [][SettingsNext]_vars

\* ------------------------------------------------------ window controller
\* the frame of the window controller: the session is not involved
sessionVars ==
  <<currentView, macros, isRecording, isPlaying, recordedEvents, isAlwaysOnTop,
    selectedPlaybackMacroId, recordingSettings, refs, now, notes>>

sizeOf(mini) == IF mini THEN MiniSize ELSE NormalSize

\* the length of the burst a signal arriving now belongs to: it continues the
\* burst of the previous signal when less than 200 ms have passed since
inBurst(n) == IF time - resizeLog.sigAt < Debounce THEN n + 1 ELSE 1

\* handleResize that leaves the earlier timers running
handleResize_keepsTimer(own) ==
  debounceTimer' = debounceTimer \cup {[due |-> time + Debounce, own |-> own]}

\* handleResize: clearTimeout(previous); setTimeout(evaluate, 200).  `own`
\* tells whether the signal comes from a size command of the controller
handleResize(own) ==
  debounceTimer' = {[due |-> time + Debounce, own |-> own]}

\* the user drags the window to another size; the host signals the resize
userResize(size) ==
  /\ Op
  /\ size # winSize
  /\ winSize' = size
  /\ handleResize(FALSE)
  /\ resizeLog' = [resizeLog EXCEPT !.sigAt = time, !.evals = 0,
                                    !.burst = inBurst(@),
                                    !.userSignals = @ + 1, !.userSize = size]
  /\ last' = Last("resize", "user")
  /\ reqs' = <<>>
  /\ UNCHANGED <<sessionVars, isMiniMode, inflight, appSettings, time>>
  /\ UNCHANGED <<bannerVars, otherVars>>

\* the host carries out window.setSize: the window takes the size and, when
\* the size changed, the host signals the resize
hostApplySize(i) ==
  /\ inflight[i].cmd = "set_size"
  /\ Pending(i)
  /\ inflight' = [inflight EXCEPT ![i].done = "ok"]
  /\ winSize' = sizeOf(inflight[i].cap.mini)
  /\ IF winSize' # winSize
     THEN /\ handleResize(TRUE)
          /\ resizeLog' = [resizeLog EXCEPT !.sigAt = time, !.evals = 0,
                                            !.burst = inBurst(@)]
     ELSE UNCHANGED <<debounceTimer, resizeLog>>
  /\ last' = Last("host:setSize", "host")
  /\ reqs' = <<>>
  /\ UNCHANGED <<sessionVars, isMiniMode, ops, appSettings, time>>
  /\ UNCHANGED <<bannerVars, otherVars>>

\* window.setSize fails: setWindowSize logs the error and returns
hostRejectSize(i) ==
  /\ inflight[i].cmd = "set_size"
  /\ Pending(i)
  /\ inflight' = [inflight EXCEPT ![i].done = "err"]
  /\ last' = [Last("host:setSize", "host") EXCEPT !.ok = FALSE]
  /\ reqs' = <<>>
  /\ UNCHANGED <<sessionVars, isMiniMode, ops, hostVars>>
  /\ UNCHANGED bannerVars

\* 100 ms pass
Tick ==
  /\ time < MaxTime
  /\ time' = time + 1
  /\ last' = Last("tick", "host")
  /\ reqs' = <<>>
  /\ UNCHANGED <<sessionVars, isMiniMode, inflight, ops, appSettings, winSize,
                 debounceTimer, resizeLog>>
  /\ UNCHANGED <<bannerVars, otherVars>>

\* the debounce timer fires: the callback runs up to `await window.innerSize()`
debounceFires(timer) ==
  /\ timer \in debounceTimer
  /\ time >= timer.due
  /\ CanIssue
  /\ debounceTimer' = debounceTimer \ {timer}
  /\ inflight' = Append(inflight,
        Task("inner_size", "handleResize", [own |-> timer.own]))
  /\ resizeLog' = [resizeLog EXCEPT !.evals = @ + 1]
  /\ last' = Last("resize:timer", "timer")
  /\ reqs' = << Request("inner_size", NoCap) >>
  /\ UNCHANGED <<sessionVars, isMiniMode, ops, appSettings, winSize, time>>
  /\ UNCHANGED <<bannerVars, otherVars>>

\* the host answers window.innerSize() with the size the window has, or fails
hostInnerSize(i, ok) ==
  /\ inflight[i].cmd = "inner_size"
  /\ Pending(i)
  /\ inflight' = [inflight EXCEPT ![i].done = IF ok THEN "ok" ELSE "err",
                                  ![i].answer = IF ok THEN winSize ELSE <<>>]
  /\ last' = [Last("host:innerSize", "host") EXCEPT !.ok = ok]
  /\ reqs' = <<>>
  /\ UNCHANGED <<sessionVars, isMiniMode, ops, hostVars>>
  /\ UNCHANGED bannerVars

\* !currentMini && (size.width < 500 || size.height < 500)
snapsDown(currentMini, size) ==
  ~currentMini /\ (size.width < SnapDownBelow \/ size.height < SnapDownBelow)

\* the Mini branch of the snapping logic without its thresholds
snapsUp_onAnySize(currentMini, size) ==
  currentMini

\* currentMini && (size.width > 360 || size.height > 150)
snapsUp(currentMini, size) ==
  currentMini /\ (size.width > SnapUpWidth \/ size.height > SnapUpHeight)

\* the rest of the debounce callback: const currentMini = isMiniModeRef.current
\* and the snapping logic, up to the `await setWindowSize` of snapToMini or
\* snapToMedium
resizeEvaluate(i) ==
  /\ inflight[i].cmd = "inner_size"
  /\ inflight[i].done = "ok"
  /\ LET size == inflight[i].answer
         currentMini == isMiniMode
     IN IF snapsDown(currentMini, size) \/ snapsUp(currentMini, size)
        THEN /\ inflight' = Append(RemoveAt(inflight, i),
                    Task("set_size", "handleResize", [mini |-> ~currentMini]))
             /\ reqs' = << Request("set_size", sizeOf(~currentMini)) >>
             /\ resizeLog' = [resizeLog EXCEPT !.cmds = @ + 1]
        ELSE /\ inflight' = RemoveAt(inflight, i)
             /\ reqs' = <<>>
             /\ UNCHANGED resizeLog
  /\ last' = [Last("resize:evaluate", "timer")
                EXCEPT !.own = inflight[i].cap.own,
                       !.size = inflight[i].answer]
  /\ UNCHANGED <<sessionVars, isMiniMode, ops, appSettings, winSize,
                 debounceTimer, time>>
  /\ UNCHANGED <<bannerVars, otherVars>>

\* catch (e) { error(`Resize check failed: ${e}`) }
resizeEvaluate_catch(i) ==
  /\ inflight[i].cmd = "inner_size"
  /\ inflight[i].done = "err"
  /\ inflight' = RemoveAt(inflight, i)
  /\ last' = [Last("resize:failed", "timer") EXCEPT !.ok = FALSE]
  /\ reqs' = <<>>
  /\ UNCHANGED <<sessionVars, isMiniMode, ops, hostVars>>
  /\ UNCHANGED bannerVars

\* the window controller on its own: the title-bar toggle, the user's drags,
\* the host's window and clock
WindowNext ==
  \/ toggleMiniMode
  \/ \E size \in UserSizes : userResize(size)
  \/ \E i \in Tasks : hostApplySize(i)
  \/ \E i \in Tasks : hostRejectSize(i)
  \/ \E i \in Tasks : ~Pending(i) /\ snapToMini(i)
  \/ \E i \in Tasks, ok \in BOOLEAN : snapToMini_settled(i, ok)
  \/ \E i \in Tasks : ~Pending(i) /\ snapToMedium(i)
  \/ Tick
  \/ \E timer \in debounceTimer : debounceFires(timer)
  \/ \E i \in Tasks, ok \in BOOLEAN : hostInnerSize(i, ok)
  \/ \E i \in Tasks : resizeEvaluate(i)
  \/ \E i \in Tasks : resizeEvaluate_catch(i)

\* useWindowManager mounted; the requests of App are left out
WindowInit ==
  /\ InitState
  /\ InitWindow
  /\ inflight = <<>>
  /\ last = Last("mount", "react")
  /\ reqs = <<>>
  /\ appSettings = [alwaysOnTop |-> FALSE, lastSelectedMacroId |-> ""]
  /\ InitOther

WindowSpec == WindowInit /\ [][WindowNext]_vars

\* ------------------------------------------------------- notification banner
\* event.payload || "Hotkey detected": an empty payload gives the default text
orElse(text, default) == IF text = "" THEN default ELSE text

\* the payloads the engine sends with a recording-warning signal
WarningPayloads == {"", "Already recording"}

\* listen("recording-warning", ...)
recordingWarning(payload) ==
  /\ Op
  /\ UNCHANGED hostVars
  /\ notes' = listenerNotify(orElse(payload, "Hotkey detected"),
                             orElse(payload, "Hotkey detected and ignored"),
                             "warning")
  /\ last' = Last("recording-warning", "engine")
  /\ reqs' = <<>>
  /\ UNCHANGED <<currentView, macros, isRecording, isPlaying, recordedEvents,
                 isAlwaysOnTop, isMiniMode, selectedPlaybackMacroId,
                 recordingSettings, refs, inflight, now>>
  /\ showInBanner

\* one second passes; a timer that is due fires before the clock moves on
bannerTick ==
  /\ clearTimers # {}
  /\ 0 \notin clearTimers
  /\ clearTimers' = {t - 1 : t \in clearTimers}
  /\ bannerAge' = IF notificationMsg = "" THEN 0 ELSE bannerAge + 1
  /\ last' = Last("banner:tick", "timer")
  /\ reqs' = <<>>
  /\ notes' = <<>>
  /\ UNCHANGED <<currentView, macros, isRecording, isPlaying, recordedEvents,
                 isAlwaysOnTop, isMiniMode, selectedPlaybackMacroId,
                 recordingSettings, refs, inflight, now, notificationMsg>>
  /\ UNCHANGED <<ops, hostVars>>

\* the callback of setTimeout(() => setNotificationMsg(""), 3000)
clearBanner ==
  /\ 0 \in clearTimers
  /\ notificationMsg' = ""
  /\ clearTimers' = clearTimers \ {0}
  /\ bannerAge' = 0
  /\ last' = Last("banner:clear", "timer")
  /\ reqs' = <<>>
  /\ notes' = <<>>
  /\ UNCHANGED <<currentView, macros, isRecording, isPlaying, recordedEvents,
                 isAlwaysOnTop, isMiniMode, selectedPlaybackMacroId,
                 recordingSettings, refs, inflight, now>>
  /\ UNCHANGED <<ops, hostVars>>

\* the session with its banner and the clock of the banner's timers; the
\* startup requests are left out
BannerInit ==
  /\ InitState
  /\ InitWindow
  /\ inflight = <<>>
  /\ last = Last("mount", "react")
  /\ reqs = <<>>
  /\ appSettings = [alwaysOnTop |-> FALSE, lastSelectedMacroId |-> ""]
  /\ InitOther

BannerNext ==
  \/ \E payload \in WarningPayloads : recordingWarning(payload)
  \/ bannerTick
  \/ clearBanner
  \/ SyncRefs
  \/ handleStartRecording
  \/ \E i \in Tasks : handleStartRecording_then(i)
  \/ \E i \in Tasks : handleStartRecording_catch(i)
  \/ toggleMiniMode
  \/ \E i \in Tasks : snapToMini(i)
  \/ \E i \in Tasks, ok \in BOOLEAN : snapToMini_settled(i, ok)
  \/ \E i \in Tasks : snapToMedium(i)

BannerSpec == BannerInit /\ [][BannerNext]_vars

\* -------------------------------------------------------- duration estimator
\* most repetitions the count field holds in the model
MaxRepeat == 3

\* the delay the panels add between two iterations, in milliseconds
LoopDelay == 500

\* the options of the Speed select, and parseFloat of each as a fraction
SpeedOptions == {"0.25", "0.5", "1", "2", "3"}

parseFloat(value) ==
  CASE value = "0.25" -> [num |-> 1, den |-> 4]
    [] value = "0.5" -> [num |-> 1, den |-> 2]
    [] value = "1" -> [num |-> 1, den |-> 1]
    [] value = "2" -> [num |-> 2, den |-> 1]
    [] value = "3" -> [num |-> 3, den |-> 1]

RepeatModes == {"once", "count", "infinite"}

\* what can be typed into the Loop Count field: nothing, or a number
CountTexts == {""} \cup {ToString(n) : n \in 0..MaxRepeat}

\* parseInt(text): the number written, or NaN (here -1) for the empty text
parseInt(text) ==
  IF \E n \in 0..MaxRepeat : ToString(n) = text
  THEN CHOOSE n \in 0..MaxRepeat : ToString(n) = text
  ELSE 0 - 1

\* x || 1 for a number: NaN and 0 are falsy
orOne(x) == IF x = 0 - 1 \/ x = 0 THEN 1 ELSE x

\* a duration of ms milliseconds; durations are kept in thirds of a
\* millisecond, which makes the quotient by every offered speed exact for an
\* even number of milliseconds
Thirds(ms) == 3 * ms

\* duration / speed
over(duration, speed) == (duration * speed.den) \div speed.num

\* the PlaybackSettings of the first render, without and with the optional
\* interval; the user reaches the other speeds, modes and counts
InitialPlaybackSettings ==
  [speed : {parseFloat("1"), parseFloat("2")}, repeatMode : {"once", "count"},
   repeatCount : {0, 1, MaxRepeat}]
  \cup
  [speed : {parseFloat("1"), parseFloat("2")}, repeatMode : {"once", "count"},
   repeatCount : {0, 1, MaxRepeat}, interval : {LoopDelay, 2 * LoopDelay}]

\* event sequences as the engine hands them back: timestamps start at 0 and
\* do not decrease
EstimatorEvents ==
  { <<>>, <<MacroEvent(0)>>, <<MacroEvent(0), MacroEvent(600)>>,
    <<MacroEvent(0), MacroEvent(600), MacroEvent(2000)>> }

\* the estimate that repeats whatever the repeat mode is
totalDuration_ignoresMode(events, playbackSettings) ==
  IF Len(events) = 0 THEN 0
  ELSE LET singleLoopDuration == Thirds(events[Len(events)].timestamp)
           adjustedSingleDuration ==
             over(singleLoopDuration, playbackSettings.speed)
           count == orOne(playbackSettings.repeatCount)
           delay == Thirds(LoopDelay)
       IN adjustedSingleDuration * count + (count - 1) * delay

\* PlaybackPanel: const totalDuration = useMemo(() => { ... })
totalDuration(events, playbackSettings) ==
  IF Len(events) = 0 THEN 0
  ELSE LET singleLoopDuration == Thirds(events[Len(events)].timestamp)
           adjustedSingleDuration ==
             over(singleLoopDuration, playbackSettings.speed)
       IN IF playbackSettings.repeatMode = "count"
          THEN LET count == orOne(playbackSettings.repeatCount)
                   delay == Thirds(LoopDelay)
               IN adjustedSingleDuration * count + (count - 1) * delay
          ELSE adjustedSingleDuration

\* RecordingPanel: const totalDuration = React.useMemo(() => { ... })
recordingTotalDuration(recorded, playbackSettings) ==
  IF Len(recorded) = 0 THEN 0
  ELSE LET singleLoopDuration == Thirds(recorded[Len(recorded)].timestamp)
           adjustedSingleDuration ==
             over(singleLoopDuration, playbackSettings.speed)
       IN IF playbackSettings.repeatMode = "count"
          THEN LET count == orOne(playbackSettings.repeatCount)
                   delay == Thirds(LoopDelay)
               IN adjustedSingleDuration * count + (count - 1) * delay
          ELSE adjustedSingleDuration

\* everything but the estimate
estimateFrame ==
  <<currentView, macros, isRecording, isPlaying, recordedEvents,
    isAlwaysOnTop, isMiniMode, selectedPlaybackMacroId, recordingSettings,
    refs, inflight, now, ops, last, reqs, notes, appSettings, winSize,
    debounceTimer, time, resizeLog, bannerVars, hotkeySettings, engineHotkeys,
    storedAtStart, hotkeysAtStart>>

\* a render of the two panels: both memos are computed from the events and
\* the settings of that render
rendered(events, playbackSettings) ==
  [events |-> events, playbackSettings |-> playbackSettings, shown |-> TRUE,
   playback |-> totalDuration(events, playbackSettings),
   recording |-> recordingTotalDuration(events, playbackSettings)]

\* the first render
renderEstimate ==
  /\ ~estimate.shown
  /\ estimate' = rendered(estimate.events, estimate.playbackSettings)
  /\ UNCHANGED estimateFrame

\* the Speed select: setPlaybackSettings({...playbackSettings, speed: parseFloat(value)})
setSpeed(value) ==
  /\ estimate.shown
  /\ estimate' = rendered(estimate.events,
                          [estimate.playbackSettings EXCEPT
                             !.speed = parseFloat(value)])
  /\ UNCHANGED estimateFrame

\* the Repeat select: setPlaybackSettings({...playbackSettings, repeatMode: value})
setRepeatMode(value) ==
  /\ estimate.shown
  /\ estimate' = rendered(estimate.events,
                          [estimate.playbackSettings EXCEPT
                             !.repeatMode = value])
  /\ UNCHANGED estimateFrame

\* the Loop Count field, shown in count mode:
\* setPlaybackSettings({...playbackSettings, repeatCount: parseInt(text) || 1})
setRepeatCount(text) ==
  /\ estimate.shown
  /\ estimate.playbackSettings.repeatMode = "count"
  /\ estimate' = rendered(estimate.events,
                          [estimate.playbackSettings EXCEPT
                             !.repeatCount = orOne(parseInt(text))])
  /\ UNCHANGED estimateFrame

\* the estimator on its own: the events and the settings are drawn from their
\* types, the panels render them and the user edits the settings
EstimateInit ==
  /\ InitState
  /\ InitWindow
  /\ inflight = <<>>
  /\ last = Last("mount", "react")
  /\ reqs = <<>>
  /\ appSettings = [alwaysOnTop |-> FALSE, lastSelectedMacroId |-> ""]
  /\ hotkeySettings = DefaultHotkeys
  /\ engineHotkeys = DefaultHotkeys
  /\ storedAtStart = appSettings
  /\ hotkeysAtStart = engineHotkeys
  /\ estimate \in [events : EstimatorEvents,
                   playbackSettings : InitialPlaybackSettings,
                   shown : {FALSE}, playback : {0}, recording : {0}]

EstimateNext ==
  \/ renderEstimate
  \/ \E value \in SpeedOptions : setSpeed(value)
  \/ \E value \in RepeatModes : setRepeatMode(value)
  \/ \E text \in CountTexts : setRepeatCount(text)

EstimateSpec == EstimateInit /\ [][EstimateNext]_vars

\* ------------------------------------------------------------ hotkey bindings
HotkeyNames == {"recordStart", "recordStop", "playbackStart", "playbackStop"}

\* the key combinations a HotkeyInput may report
KeyCombos == {"F8", "Ctrl+R"}

\* the bindings the engine may hold at startup
StoredHotkeys == {DefaultHotkeys, [DefaultHotkeys EXCEPT !.recordStart = "F8"]}

\* what the hotkey handling leaves alone outside the session
hotkeyFrame ==
  <<appSettings, winSize, debounceTimer, time, resizeLog, estimate,
    storedAtStart, hotkeysAtStart>>

\* useEffect(() => { updateHotkeys() }, [hotkeySettings]): the effect that
\* follows a render with new hotkeySettings; `rest` is the list of requests
\* in flight the caller leaves behind
updateHotkeys(settings, rest) ==
  /\ reqs' = << Request("update_hotkeys", settings) >>
  /\ inflight' = Append(rest, Task("update_hotkeys", "effect",
                                   [bindings |-> settings]))

\* a HotkeyInput of the settings panel: onHotkeyChange({...hotkeySettings, [name]: value})
UIHotkeyChange(name, value) ==
  /\ Op
  /\ ~isMiniMode
  /\ currentView = "settings"
  /\ CanIssue
  /\ hotkeySettings' = [hotkeySettings EXCEPT ![name] = value]
  /\ updateHotkeys(hotkeySettings', inflight)
  /\ last' = Last("hotkeyChange", "ui")
  /\ notes' = <<>>
  /\ UNCHANGED <<currentView, macros, isRecording, isPlaying, recordedEvents,
                 isAlwaysOnTop, isMiniMode, selectedPlaybackMacroId,
                 recordingSettings, refs, now>>
  /\ UNCHANGED <<engineHotkeys, hotkeyFrame>>
  /\ showInBanner

\* await invoke("update_hotkeys", ...) settles: info(...) or logError(...)
updateHotkeys_settled(i, ok) ==
  /\ inflight[i].cmd = "update_hotkeys"
  /\ inflight' = RemoveAt(inflight, i)
  /\ last' = [Last("updateHotkeys:settled", "effect") EXCEPT !.ok = ok]
  /\ reqs' = <<>>
  /\ notes' = <<>>
  /\ UNCHANGED <<currentView, macros, isRecording, isPlaying, recordedEvents,
                 isAlwaysOnTop, isMiniMode, selectedPlaybackMacroId,
                 recordingSettings, refs, now>>
  /\ UNCHANGED <<ops, hostVars>>
  /\ showInBanner

\* initialize: setHotkeySettings(loadedHotkeys), and the effect that follows
initialize_hotkeys(i, loadedHotkeys) ==
  /\ inflight[i].cmd = "get_hotkeys"
  /\ hotkeySettings' = loadedHotkeys
  /\ updateHotkeys(hotkeySettings', RemoveAt(inflight, i))
  /\ last' = Last("initialize:hotkeys", "startup")
  /\ notes' = <<>>
  /\ UNCHANGED <<currentView, macros, isRecording, isPlaying, recordedEvents,
                 isAlwaysOnTop, isMiniMode, selectedPlaybackMacroId,
                 recordingSettings, refs, now>>
  /\ UNCHANGED <<ops, engineHotkeys, hotkeyFrame>>
  /\ showInBanner

\* initialize: get_hotkeys rejected, the catch block logs
initialize_hotkeysFailed(i) ==
  /\ inflight[i].cmd = "get_hotkeys"
  /\ inflight' = RemoveAt(inflight, i)
  /\ last' = [Last("initialize:hotkeysFailed", "startup") EXCEPT !.ok = FALSE]
  /\ reqs' = <<>>
  /\ notes' = <<>>
  /\ UNCHANGED <<currentView, macros, isRecording, isPlaying, recordedEvents,
                 isAlwaysOnTop, isMiniMode, selectedPlaybackMacroId,
                 recordingSettings, refs, now>>
  /\ UNCHANGED <<ops, hostVars>>
  /\ showInBanner

\* the engine processes an update_hotkeys request: it registers the four
\* bindings, or fails and registers nothing
engine_update_hotkeys(i, ok) ==
  /\ inflight[i].cmd = "update_hotkeys"
  /\ Pending(i)
  /\ engineHotkeys' = IF ok THEN inflight[i].cap.bindings ELSE engineHotkeys
  /\ inflight' = [inflight EXCEPT ![i].done = IF ok THEN "ok" ELSE "err"]
  /\ last' = [Last("engine:update_hotkeys", "engine") EXCEPT !.ok = ok]
  /\ reqs' = <<>>
  /\ notes' = <<>>
  /\ UNCHANGED <<currentView, macros, isRecording, isPlaying, recordedEvents,
                 isAlwaysOnTop, isMiniMode, selectedPlaybackMacroId,
                 recordingSettings, refs, now>>
  /\ UNCHANGED <<ops, hotkeySettings, hotkeyFrame>>
  /\ showInBanner

\* the engine processes a get_hotkeys request: the answer is what it has
\* registered at that moment
engine_get_hotkeys(i, ok) ==
  /\ inflight[i].cmd = "get_hotkeys"
  /\ Pending(i)
  /\ inflight' = [inflight EXCEPT ![i].done = IF ok THEN "ok" ELSE "err",
                                  ![i].answer = IF ok THEN engineHotkeys ELSE <<>>]
  /\ last' = [Last("engine:get_hotkeys", "engine") EXCEPT !.ok = ok]
  /\ reqs' = <<>>
  /\ notes' = <<>>
  /\ UNCHANGED <<currentView, macros, isRecording, isPlaying, recordedEvents,
                 isAlwaysOnTop, isMiniMode, selectedPlaybackMacroId,
                 recordingSettings, refs, now>>
  /\ UNCHANGED <<ops, hostVars>>
  /\ showInBanner

\* the hotkey bindings on their own: the two mount effects have issued
\* update_hotkeys with the default bindings and get_hotkeys
HotkeyInit ==
  /\ InitState
  /\ InitWindow
  /\ appSettings = [alwaysOnTop |-> FALSE, lastSelectedMacroId |-> ""]
  /\ inflight = << Task("update_hotkeys", "effect", [bindings |-> DefaultHotkeys]),
                   Task("get_hotkeys", "initialize", NoCap) >>
  /\ last = Last("mount", "react")
  /\ reqs = << Request("update_hotkeys", DefaultHotkeys),
               Request("get_hotkeys", NoCap) >>
  /\ hotkeySettings = DefaultHotkeys
  /\ engineHotkeys \in StoredHotkeys
  /\ estimate = <<>>
  /\ storedAtStart = appSettings
  /\ hotkeysAtStart = engineHotkeys

HotkeyNext ==
  \/ \E i \in Tasks, ok \in BOOLEAN : engine_update_hotkeys(i, ok)
  \/ \E i \in Tasks, ok \in BOOLEAN : engine_get_hotkeys(i, ok)
  \/ \E i \in Tasks, ok \in BOOLEAN :
        Replied(i, ok) /\ updateHotkeys_settled(i, ok)
  \/ \E i \in Tasks :
        Replied(i, TRUE) /\ initialize_hotkeys(i, inflight[i].answer)
  \/ \E i \in Tasks : Replied(i, FALSE) /\ initialize_hotkeysFailed(i)
  \/ \E view \in ViewType : UIViewChange(view)
  \/ \E name \in HotkeyNames, value \in KeyCombos : UIHotkeyChange(name, value)

HotkeySpec == HotkeyInit /\ [][HotkeyNext]_vars

\* ------------------------------------------------------ playback buttons
\* the library of a session that starts with one recorded macro in store
PlaybackLibrary ==
  << Macro("1", MacroName(1), <<MacroEvent(0), MacroEvent(5)>>,
           DefaultRecordingSettings) >>

\* the macros view after a startup that loaded PlaybackLibrary and the
\* selection of its macro; the startup requests have completed
PlaybackInit ==
  /\ currentView = "macros"
  /\ macros = PlaybackLibrary
  /\ isRecording = FALSE
  /\ isPlaying = FALSE
  /\ recordedEvents = <<>>
  /\ isAlwaysOnTop = FALSE
  /\ isMiniMode = FALSE
  /\ selectedPlaybackMacroId = "1"
  /\ recordingSettings = DefaultRecordingSettings
  /\ refs = Deps
  /\ inflight = <<>>
  /\ now = 1
  /\ ops = 0
  /\ last = Last("mount", "react")
  /\ reqs = <<>>
  /\ notes = <<>>
  /\ notificationMsg = ""
  /\ clearTimers = {}
  /\ bannerAge = 0
  /\ InitWindow
  /\ appSettings = [alwaysOnTop |-> FALSE, lastSelectedMacroId |-> "1"]
  /\ InitOther

\* the play / stop button of the playback panel and of the Mini panel: each
\* starts a playback only while none is shown as running
PlaybackNext ==
  \/ UIPlayRecorded
  \/ \E i \in Tasks : handlePlayRecordedEvents_then(i)
  \/ \E i \in Tasks : handlePlayRecordedEvents_catch(i)
  \/ \E macro \in PlayableMacros : isMiniMode /\ handlePlayMacro(macro)
  \/ \E i \in Tasks : handlePlayMacro_then(i)
  \/ \E i \in Tasks : handlePlayMacro_catch(i)
  \/ handleStopPlayback
  \/ \E view \in ViewType : UIViewChange(view)
  \/ toggleMiniMode
  \/ \E i \in Tasks : snapToMini(i)
  \/ \E i \in Tasks, ok \in BOOLEAN : snapToMini_settled(i, ok)
  \/ \E i \in Tasks : snapToMedium(i)
  \/ SyncRefs

PlaybackSpec == PlaybackInit /\ [][PlaybackNext]_vars

\* ================================================================ claims
InFlight(cmd) == \E i \in Tasks : inflight[i].cmd = cmd

Issued(rs, cmd) == \E k \in 1..Len(rs) : rs[k].cmd = cmd

\* a notification that tells the user of a failure: an error toast, an alert,
\* or a banner line (the banner has no severity) carrying a failure text
FailureTexts ==
  {"Failed to start recording", "Failed to start", "Failed to stop recording",
   "Failed to stop", "Failed to play", "Failed to play macro", "Info",
   "No events to play", "Failed to delete macro"}

IsErrorNote(n) ==
  \/ n.channel = "toast" /\ n.type = "error"
  \/ n.channel = "alert"
  \/ n.channel = "banner" /\ n.msg \in FailureTexts

ErrorRaised(ns) == \E k \in 1..Len(ns) : IsErrorNote(ns[k])

\* C1: in every reachable state isRecording and isPlaying are not both true.
C1_MutualExclusion == ~(isRecording /\ isPlaying)

\* C2: a startRecording invoked while isPlaying is true, from a record button
\* or from the record-start hotkey, issues no start_recording request (and so
\* never turns isRecording on).
C2_StartWhilePlayingIsNoOp ==
  (last.op \in {"startRecording", "hotkey:record-start"} /\ isPlaying)
    => ~Issued(reqs, "start_recording")

\* C3: a stopRecording that the engine answers with an empty event sequence
\* appends no macro, issues no save_macro request and leaves isRecording false.
C3_EmptyStopCreatesNothing ==
  [][ (last'.op = "stopRecording:resolved" /\ last'.events = <<>>)
        => /\ macros' = macros
           /\ ~Issued(reqs', "save_macro")
           /\ ~isRecording' ]_vars

C3_Witness ==
  /\ last.op = "stopRecording:resolved"
  /\ last.src = "hotkey"
  /\ last.events = <<>>
  /\ Len(macros) > 0

\* C4: a stopRecording that the engine answers with a non-empty sequence sets
\* isRecording false, stores the sequence in the event buffer, appends exactly
\* one macro named "Macro N", N = library size at that moment + 1, carrying the
\* recording settings current at that moment, and issues exactly one save_macro
\* request, for that macro.
C4_StopAppendsOneMacro ==
  [][ (last'.op = "stopRecording:resolved" /\ last'.events # <<>>)
        => /\ ~isRecording'
           /\ recordedEvents' = last'.events
           /\ Len(macros') = Len(macros) + 1
           /\ SubSeq(macros', 1, Len(macros)) = macros
           /\ macros'[Len(macros')].name = MacroName(Len(macros) + 1)
           /\ macros'[Len(macros')].events = last'.events
           /\ macros'[Len(macros')].recordingSettings = recordingSettings
           /\ reqs' = << Request("save_macro", macros'[Len(macros')]) >> ]_vars

\* C5: after every stopRecording that returned a non-empty sequence - from the
\* UI once its save_macro request has settled, from the hotkey once the stop
\* has been handled - the new macro is the selected one and an
\* update_app_settings request persisting its id has been issued.
C5_NewMacroSelected ==
  LET done == \/ last.op \in {"stopRecording:saved", "stopRecording:saveFailed"}
              \/ /\ last.op = "stopRecording:resolved"
                 /\ last.src = "hotkey"
                 /\ last.events # <<>>
      newId == IF last.src = "hotkey" THEN macros[Len(macros)].id ELSE last.id
  IN done => /\ selectedPlaybackMacroId = newId
             /\ \E k \in 1..Len(reqs) :
                  /\ reqs[k].cmd = "update_app_settings"
                  /\ reqs[k].arg.lastSelectedMacroId = newId

\* C6: when the engine rejects stop_recording (UI or hotkey), isRecording
\* becomes false, an error notification is raised, the library is unchanged
\* and no save_macro request is issued.
C6_StopFailure ==
  [][ last'.op = "stopRecording:rejected"
        => /\ ~isRecording'
           /\ ErrorRaised(notes')
           /\ macros' = macros
           /\ ~Issued(reqs', "save_macro") ]_vars

C6_Witness ==
  /\ last.op = "stopRecording:rejected"
  /\ last.src = "ui"
  /\ ErrorRaised(notes)
  /\ Len(macros) > 0

\* C7: a playback request with an empty event sequence - raw events or a macro
\* whose events list is empty - does not set isPlaying and issues no
\* play_macro request.
C7_EmptyPlaybackRejected ==
  [][ (last'.op \in {"playback", "hotkey:playback-start"} /\ last'.gate
         /\ last'.events = <<>>)
        => /\ isPlaying' = isPlaying
           /\ ~Issued(reqs', "play_macro") ]_vars

PlaybackSettled == last.op \in {"playback:resolved", "playback:rejected"}

\* C8: once a play_macro request has resolved or rejected isPlaying is false,
\* and if every play_macro request eventually settles, every state with
\* isPlaying true is followed by one with isPlaying false.
C8_PlaybackReleases ==
  /\ [](PlaybackSettled => ~isPlaying)
  /\ (isPlaying ~> ~isPlaying)

C8_Witness ==
  /\ last.op = "playback:rejected"
  /\ last.src = "hotkey"
  /\ ~last.stray
  /\ InFlight("play_macro")

\* C9: stopPlayback (the UI button or the playback-stop hotkey passing its
\* gate) sets isPlaying false and issues no engine request; isRecording, the
\* library, the selection, the event buffer and the window mode are unchanged.
C9_StopPlaybackLocal ==
  [][ (last'.op = "stopPlayback" \/ (last'.op = "hotkey:playback-stop" /\ last'.gate))
        => /\ ~isPlaying'
           /\ reqs' = <<>>
           /\ inflight' = inflight
           /\ UNCHANGED <<isRecording, macros, selectedPlaybackMacroId,
                          recordedEvents, isMiniMode>> ]_vars

C9_Witness ==
  /\ last.op = "stopPlayback"
  /\ InFlight("play_macro")
  /\ selectedPlaybackMacroId # ""
  /\ Len(macros) > 0

\* C10: a play_macro request that settles while isPlaying is already false
\* (stopPlayback ran, no playback is running) leaves isRecording, isPlaying,
\* the library, the selection and the event buffer as they are; its
\* continuation runs to its end and issues nothing.
C10_StrayCompletionHarmless ==
  [][ (last'.op \in {"playback:resolved", "playback:rejected"} /\ ~isPlaying)
        => /\ UNCHANGED <<isRecording, isPlaying, macros,
                          selectedPlaybackMacroId, recordedEvents>>
           /\ Len(inflight') = Len(inflight) - 1
           /\ reqs' = <<>> ]_vars

C10_Witness ==
  /\ PlaybackSettled
  /\ last.stray
  /\ ~InFlight("play_macro")
  /\ isRecording

\* C11: whenever no engine request is in flight, selectedMacroId is empty or
\* is the id of a macro of the in-memory library.
C11_SelectionInLibrary ==
  inflight = <<>> =>
    \/ selectedPlaybackMacroId = ""
    \/ find(macros, selectedPlaybackMacroId) # {}

\* the deleteMacro call that has just succeeded, as the call saw the session
DeleteCall ==
  LET done == { i \in Tasks : /\ inflight[i].cmd = "delete_macro"
                              /\ i > Len(inflight') \/ inflight'[i] # inflight[i] }
  IN inflight[CHOOSE i \in done : \A j \in done : i <= j].cap

SelectCall ==
  /\ last'.op \in {"selectMacro", "stopRecording:saved", "deleteMacro:resolved"}
  /\ reqs' # <<>>

SelectRequests(tasks) ==
  { k \in 1..Len(tasks) : tasks[k].src = "handleMacroSelect" }

\* C13: every selectMacro(id) call sets selectedMacroId = id and issues, in
\* the same step, exactly one update_app_settings request carrying
\* lastSelectedMacroId = id, which joins the requests in flight (nothing is
\* coalesced or deferred); and when the last request of these calls has
\* completed, no other settings update being in flight and the selection being
\* the one last asked for, the engine holds lastSelectedMacroId =
\* selectedMacroId.
C13_SelectionPersisted ==
  [][ /\ SelectCall =>
           /\ Len(reqs') = 1
           /\ reqs'[1].cmd = "update_app_settings"
           /\ reqs'[1].arg.lastSelectedMacroId = selectedPlaybackMacroId'
           /\ Cardinality(SelectRequests(inflight')) =
                Cardinality(SelectRequests(inflight)) + 1
      /\ ( /\ last'.op = "selectMacro:settled"
           /\ ~InFlight("update_app_settings")'
           /\ \E i \in SelectRequests(inflight) :
                inflight[i].cap.id = selectedPlaybackMacroId' )
         => appSettings'.lastSelectedMacroId = selectedPlaybackMacroId' ]_vars

HotkeyOps ==
  {"hotkey:record-start", "hotkey:record-stop", "hotkey:playback-start",
   "hotkey:playback-stop"}

\* C14: while currentView = settings, a hotkey signal (any of the four) leaves
\* isRecording, isPlaying, the event buffer and the library unchanged and
\* issues no engine request.
C14_SettingsViewSilencesHotkeys ==
  [][ (last'.op \in HotkeyOps /\ last'.src = "hotkey" /\ currentView = "settings")
        => /\ UNCHANGED <<isRecording, isPlaying, recordedEvents, macros>>
           /\ reqs' = <<>>
           /\ inflight' = inflight ]_vars

C14_Witness ==
  /\ last.op = "hotkey:record-stop"
  /\ ~last.gate
  /\ currentView = "settings"
  /\ isRecording
  /\ refs.isRecording

\* the gate of a signal evaluated on the session state itself
SessionGate(op) ==
  CASE op = "hotkey:record-start" -> ~isRecording /\ ~isPlaying
    [] op = "hotkey:record-stop" -> isRecording
    [] op = "hotkey:playback-start" ->
         ~isRecording /\ ~isPlaying /\ Len(recordedEvents) > 0
    [] op = "hotkey:playback-stop" -> isPlaying

\* C15: outside the settings view, a hotkey signal whose gate does not hold on
\* the session state at the time of the signal changes no state, issues no
\* engine request and raises no notification.
C15_GateOnSessionState ==
  [][ ( /\ last'.op \in HotkeyOps
        /\ last'.src = "hotkey"
        /\ currentView # "settings"
        /\ ~SessionGate(last'.op) )
        => /\ UNCHANGED <<isRecording, isPlaying, recordedEvents, macros,
                          selectedPlaybackMacroId, recordingSettings,
                          currentView, isMiniMode>>
           /\ reqs' = <<>>
           /\ inflight' = inflight
           /\ notes' = <<>> ]_vars

\* C16: when a hotkey gate is evaluated, the shadow references it reads hold
\* the current isRecording, isPlaying, currentView and event buffer.
C16_GateReadsLatestState ==
  [][ (last'.op \in HotkeyOps /\ last'.src = "hotkey")
        => /\ refs.isRecording = isRecording
           /\ refs.isPlaying = isPlaying
           /\ refs.currentView = currentView
           /\ refs.recordedEvents = recordedEvents ]_vars

SmallForNormal(size) ==
  size.width < SnapDownBelow \/ size.height < SnapDownBelow

\* C17: from Normal with no timer pending, when the only thing the user has
\* done is one resize to a size with width < 500 or height < 500, the resize
\* handling issues no more than one window-size command, every window-size
\* command in flight asks for 355x140, and once the command has completed the
\* mode is Mini.
C17_OneSnapToMini ==
  ( /\ ops = 1
    /\ resizeLog.userSignals = 1
    /\ SmallForNormal(resizeLog.userSize) )
  => /\ resizeLog.cmds <= 1
     /\ \A i \in Tasks : inflight[i].cmd = "set_size" => inflight[i].cap.mini
     /\ (resizeLog.cmds >= 1 /\ ~InFlight("set_size")) => isMiniMode

SizeCommands(tasks) == { k \in 1..Len(tasks) : tasks[k].cmd = "set_size" }

C19_OwnResizeIgnored ==
  [][ ( /\ last'.op = "resize:evaluate"
        /\ last'.own
        /\ last'.size \in {MiniSize, NormalSize} )
        => reqs' = <<>> ]_vars

\* C20: a step that takes the window into Mini is the continuation of
\* snapToMini and issues one update_app_settings request with alwaysOnTop =
\* true; when that request settles, failed or not, the mode and the window are
\* left as they are and nothing is issued; a step that takes the window out of
\* Mini issues no update_app_settings request.
C20_AlwaysOnTopOnEnteringMini ==
  [][ /\ (~isMiniMode /\ isMiniMode')
         => /\ last'.op = "snapToMini"
            /\ reqs' = << Request("update_app_settings",
                                  [alwaysOnTop |-> TRUE]) >>
      /\ last'.op = "snapToMini:settled"
         => /\ UNCHANGED <<isMiniMode, winSize, isAlwaysOnTop>>
            /\ reqs' = <<>>
      /\ (isMiniMode /\ ~isMiniMode')
         => ~Issued(reqs', "update_app_settings") ]_vars

C20_Witness ==
  /\ last.op = "snapToMini:settled"
  /\ ~last.ok
  /\ isMiniMode
  /\ ops = 1
  /\ resizeLog.userSignals = 1
  /\ resizeLog.cmds = 1
  /\ winSize = MiniSize

\* C25: the recording settings change only in states where isRecording and
\* isPlaying are both false: no step changes a recording setting while a
\* recording or a playback is going on.
C25_SettingsChangeOnlyWhenIdle ==
  [][ recordingSettings' # recordingSettings
        => ~isRecording /\ ~isPlaying ]_vars

\* the steps in which the orchestrator learns that an engine request failed
RejectedSteps ==
  {"startRecording:rejected", "stopRecording:rejected",
   "stopRecording:saveFailed", "playback:rejected", "deleteMacro:rejected",
   "toggleAlwaysOnTop:rejected"}

SettledSteps ==
  {"stopRecording:saveSettled", "importMacro:nothing",
   "importMacro:saveSettled", "exportMacro:settled", "selectMacro:settled",
   "snapToMini:settled", "initialize:persistSettled"}

FailedRequest(l) ==
  \/ l.op \in RejectedSteps
  \/ l.op \in SettledSteps /\ ~l.ok

\* a notification that reports a success: a success toast, or a banner line
\* that carries no failure text
SuccessRaised(ns) ==
  \E k \in 1..Len(ns) :
     \/ ns[k].channel = "toast" /\ ns[k].type = "success"
     \/ ns[k].channel = "banner" /\ ns[k].msg \notin FailureTexts

\* C28: every step in which an engine request is found to have failed (start
\* or stop recording, play, save, delete, import, export, update of the
\* application settings) raises an error notification and raises no success
\* notification.
C28_FailuresAreReported ==
  [][ FailedRequest(last')
        => ErrorRaised(notes') /\ ~SuccessRaised(notes') ]_vars

\* the notification of a started recording
StartedNote(ns) ==
  /\ Len(ns) = 1
  /\ \/ ns[1].channel = "toast" /\ ns[1].type = "success"
     \/ /\ ns[1].channel = "banner"
        /\ ns[1].msg \in {"Recording started", "Recording started via hotkey"}

\* C29: when the engine accepts start_recording, isRecording becomes true, the
\* event buffer becomes empty and a success notification is raised; when the
\* engine rejects it, isRecording and the event buffer keep their values and an
\* error notification is raised; isPlaying, the library and the selection are
\* unchanged in both cases.
C29_StartRecordingOutcome ==
  [][ /\ last'.op = "startRecording:resolved"
         => /\ isRecording'
            /\ recordedEvents' = <<>>
            /\ StartedNote(notes')
            /\ UNCHANGED <<isPlaying, macros, selectedPlaybackMacroId>>
      /\ last'.op = "startRecording:rejected"
         => /\ UNCHANGED <<isRecording, recordedEvents>>
            /\ ErrorRaised(notes')
            /\ ~SuccessRaised(notes')
            /\ UNCHANGED <<isPlaying, macros, selectedPlaybackMacroId>> ]_vars

C29_Witness ==
  /\ last.op = "startRecording:rejected"
  /\ recordedEvents # <<>>
  /\ ~isRecording
  /\ macros # <<>>

\* the cells of the React tree that a handler can write
localState ==
  <<currentView, macros, isRecording, isPlaying, recordedEvents,
    isAlwaysOnTop, isMiniMode, selectedPlaybackMacroId, recordingSettings>>

\* C30: when import_macro returns a macro, that macro is appended at the end of
\* the library and one save_macro request carrying it is issued, and no other
\* step of the import issues one; when import_macro returns null the library
\* is unchanged and no save_macro request is issued; exporting a macro changes
\* no local state.
C30_ImportAppendsExportIsLocalNoOp ==
  [][ /\ last'.op = "importMacro:resolved"
         => /\ Len(macros') = Len(macros) + 1
            /\ macros' = Append(macros, macros'[Len(macros')])
            /\ macros'[Len(macros')].id = last'.id
            /\ reqs' = << Request("save_macro", macros'[Len(macros')]) >>
      /\ last'.op = "importMacro:nothing"
         => /\ macros' = macros
            /\ ~Issued(reqs', "save_macro")
      /\ last'.op \in {"importMacro", "importMacro:saveSettled"}
         => /\ macros' = macros
            /\ ~Issued(reqs', "save_macro")
      /\ last'.op \in {"exportMacro", "exportMacro:settled"}
         => UNCHANGED localState ]_vars

C30_Witness ==
  /\ last.op = "importMacro:resolved"
  /\ Len(macros) = 2
  /\ macros[2].id = last.id
  /\ macros[1].id # last.id
  /\ reqs = << Request("save_macro", macros[2]) >>

Severities == {"success", "error", "warning", "info"}

\* C22: every notification a step raises goes to the banner and to no toast
\* when the window is in Mini mode at that time, and otherwise is one toast of
\* one of the four severities; no other channel is used.
C22_NotificationRouting ==
  [][ /\ Len(notes') <= 1
      /\ \A k \in 1..Len(notes') :
            IF isMiniMode
            THEN notes'[k].channel = "banner"
            ELSE /\ notes'[k].channel = "toast"
                 /\ notes'[k].type \in Severities ]_vars

\* C21: a notification raised in Mini mode becomes the banner line, replacing
\* the line shown before; the banner line is cleared only when it has been
\* shown for 3000 ms, so the timer of an earlier notification never clears a
\* later one; no line is shown for longer than 3000 ms.
C21_BannerShownForThreeSeconds ==
  [][ /\ (notes' # <<>> /\ notes'[1].channel = "banner")
         => notificationMsg' = notes'[1].msg
      /\ (last'.op = "banner:clear" /\ notificationMsg # "")
         => bannerAge = BannerClear
      /\ bannerAge' <= BannerClear ]_vars

\* the interval of the settings, 500 ms when the setting is absent
intervalOf(playbackSettings) ==
  IF "interval" \in DOMAIN playbackSettings THEN playbackSettings.interval
  ELSE LoopDelay

lastTimestamp(events) == events[Len(events)].timestamp

C24_SingleRunEstimate ==
  estimate.shown
  => /\ estimate.events = <<>> => estimate.playback = 0
     /\ ( /\ estimate.events # <<>>
          /\ estimate.playbackSettings.repeatMode \in {"once", "infinite"} )
        => estimate.playback =
             over(Thirds(lastTimestamp(estimate.events)),
                  estimate.playbackSettings.speed)
     /\ estimate.playback =
          totalDuration(estimate.events, estimate.playbackSettings)

C24_Witness ==
  /\ estimate.shown
  /\ estimate.events # <<>>
  /\ lastTimestamp(estimate.events) = 2000
  /\ estimate.playbackSettings.speed = parseFloat("2")
  /\ estimate.playbackSettings.repeatMode = "infinite"
  /\ estimate.playbackSettings.repeatCount = 3
  /\ "interval" \in DOMAIN estimate.playbackSettings
  /\ estimate.playback = Thirds(1000)

\* the requests of the two mount effects have all completed and the user has
\* done nothing yet
StartupDone ==
  /\ ops = 0
  /\ \A i \in Tasks : inflight[i].src \notin {"loadSettings", "initialize"}

\* C27: when the library loaded at startup is not empty and the selection the
\* engine held at startup is empty or names no loaded macro, then once the
\* startup requests have completed the selection is the first loaded macro,
\* the engine holds that id, and no error notification has been raised.
C27_StaleSelectionHealed ==
  ( /\ StartupDone
    /\ macros # <<>>
    /\ selectionStale(storedAtStart.lastSelectedMacroId, macros) )
  => /\ selectedPlaybackMacroId = macros[1].id
     /\ appSettings.lastSelectedMacroId = macros[1].id
     /\ ~ErrorRaised(notes)

\* C26: every change of the local hotkey settings issues an update_hotkeys
\* request that carries the four new bindings, and whenever no update_hotkeys
\* request is in flight the bindings the engine has registered are the local
\* hotkey settings.
C26_HotkeysPushed ==
  [][ /\ hotkeySettings' # hotkeySettings
         => reqs' = << Request("update_hotkeys", hotkeySettings') >>
      /\ (\A i \in 1..Len(inflight') : inflight'[i].cmd # "update_hotkeys")
         => engineHotkeys' = hotkeySettings' ]_vars

\* C31: in every reachable state the macros of the in-memory library have
\* pairwise distinct ids, whatever recordings were stopped (ids read from the
\* millisecond clock) and whatever files were imported (ids read from the
\* file).
C31_DistinctIds ==
  \A i, j \in 1..Len(macros) : i # j => macros[i].id # macros[j].id

\* the size commands a resize evaluation has issued and that await the host
SnapUpCommands(tasks) ==
  { i \in 1..Len(tasks) : /\ tasks[i].cmd = "set_size"
                          /\ tasks[i].src = "handleResize"
                          /\ ~tasks[i].cap.mini }

\* C32: a debounced resize evaluation in Mini that reads a width above 360 or
\* a height above 150 issues exactly one size command, 1000 x 700, and the
\* mode becomes Normal when that command has settled; in Mini with width <=
\* 360 and height <= 150, and in Normal with width >= 500 and height >= 500,
\* the evaluation issues no command and keeps the mode.
C32_ResizeEvaluation ==
  [][ /\ last'.op = "resize:evaluate" =>
           LET size == last'.size
           IN /\ (isMiniMode /\ (size.width > 360 \/ size.height > 150))
                   => /\ reqs' = << Request("set_size",
                                            [width |-> 1000, height |-> 700]) >>
                      /\ Cardinality(SnapUpCommands(inflight'))
                           = Cardinality(SnapUpCommands(inflight)) + 1
              /\ (isMiniMode /\ size.width <= 360 /\ size.height <= 150)
                   => /\ reqs' = <<>>
                      /\ Cardinality(SizeCommands(inflight'))
                           = Cardinality(SizeCommands(inflight))
                      /\ isMiniMode'
              /\ (~isMiniMode /\ size.width >= 500 /\ size.height >= 500)
                   => /\ reqs' = <<>>
                      /\ Cardinality(SizeCommands(inflight'))
                           = Cardinality(SizeCommands(inflight))
                      /\ ~isMiniMode'
      /\ Cardinality(SnapUpCommands(inflight'))
           < Cardinality(SnapUpCommands(inflight))
         => ~isMiniMode' ]_vars

\* an evaluation in Mini has read 800 x 600 and has issued the command
C32_Witness ==
  /\ last.op = "resize:evaluate"
  /\ isMiniMode
  /\ last.size = [width |-> 800, height |-> 600]
  /\ reqs = << Request("set_size", NormalSize) >>

\* an evaluation in Mini has read a size within the Mini thresholds
C32_WitnessKeepsMini ==
  /\ last.op = "resize:evaluate"
  /\ isMiniMode
  /\ last.size = [width |-> 350, height |-> 140]
  /\ reqs = <<>>

\* the engine has just processed the settings update of a selectMacro call
SelectionStored ==
  /\ last'.op = "engine:update_app_settings"
  /\ last'.ok
  /\ \E i \in 1..Len(inflight) :
        /\ inflight[i].src = "handleMacroSelect"
        /\ inflight[i].done = "pending"
        /\ inflight'[i].done = "ok"

\* C33: the settings update of selectMacro(id) changes only
\* lastSelectedMacroId in the settings the engine holds: the alwaysOnTop value
\* the engine holds after the update is the one it held before, also when
\* entering Mini mode had set it to true.
C33_SelectKeepsAlwaysOnTop ==
  [][ SelectionStored => appSettings'.alwaysOnTop = appSettings.alwaysOnTop ]_vars

\* the two startup requests for the bindings, and every update that followed
\* from them, have completed and the user has changed nothing
HotkeyStartupDone ==
  /\ ops = 0
  /\ \A i \in Tasks : inflight[i].cmd \notin {"update_hotkeys", "get_hotkeys"}

\* C34: a startup without user edits leaves the engine with the bindings it
\* had registered before: the update_hotkeys request of the first render,
\* which carries F9, F10, F11, F12, never replaces them, in whatever order the
\* engine processes it and the get_hotkeys request.
C34_StartupKeepsBindings ==
  HotkeyStartupDone => engineHotkeys = hotkeysAtStart

\* C35: the in-memory library loses a macro only through deleteMacro: every
\* macro of the library is still in it after any step other than a delete of
\* that macro, in particular a macro appended by an import or by a
\* hotkey-stopped recording while a UI stopRecording or the startup load was
\* awaiting the engine.
C35_OnlyDeleteRemoves ==
  [][ \A k \in 1..Len(macros) :
        \/ last'.op = "deleteMacro" /\ last'.id = macros[k].id
        \/ \E j \in 1..Len(macros') : macros'[j] = macros[k] ]_vars

\* the play_macro requests in flight that were issued after request i
LaterPlayback(i) ==
  \E j \in (i + 1)..Len(inflight) : inflight[j].cmd = "play_macro"

\* C36: when a playback has been stopped locally and another one has been
\* started afterwards, the completion or failure of the earlier play_macro
\* request does not set isPlaying to false while the request of the later one
\* is in flight.
C36_LateCompletionSparesNewPlayback ==
  [][ \A i \in 1..Len(inflight) :
        ( /\ inflight[i].cmd = "play_macro"
          /\ LaterPlayback(i)
          /\ inflight' = RemoveAt(inflight, i)
          /\ isPlaying )
        => isPlaying' ]_vars

\* toggleMiniMode has been called twice, the user has not resized the window,
\* and every command and timer that followed from the two calls is done
TwoTogglesDone ==
  /\ ops = 2
  /\ resizeLog.userSignals = 0
  /\ inflight = <<>>
  /\ debounceTimer = {}

\* C37: two toggleMiniMode calls leave the window mode equal to the mode
\* before the first call (Normal, the mode the window opens in), also when
\* the second call is made before the window-size command of the first has
\* completed.
C37_TwoTogglesRestoreMode ==
  TwoTogglesDone => ~isMiniMode

\* C38: at most one start_recording request is in flight at any time, for
\* every interleaving of record clicks and record-start hotkey signals: a
\* record-start that arrives while an earlier start_recording request has not
\* completed issues no second request.
C38_OneStartRecordingInFlight ==
  Cardinality({ i \in Tasks : inflight[i].cmd = "start_recording" }) <= 1

\* C39: when the engine rejects delete_macro the library is left as it is,
\* without the macro the click removed (no rollback); the selection keeps its
\* value, also when it names the deleted macro; no selection is persisted;
\* and an error notification is raised.
C39_DeleteRejected ==
  [][ /\ last'.op = "deleteMacro" => find(macros', last'.id) = {}
      /\ last'.op = "deleteMacro:rejected"
         => /\ macros' = macros
            /\ selectedPlaybackMacroId' = selectedPlaybackMacroId
            /\ reqs' = <<>>
            /\ Cardinality(SelectRequests(inflight'))
                 = Cardinality(SelectRequests(inflight))
            /\ ErrorRaised(notes') ]_vars

\* the delete of the selected macro has been rejected: the macro is gone and
\* is still the selection
C39_Witness ==
  /\ last.op = "deleteMacro:rejected"
  /\ selectedPlaybackMacroId = last.id
  /\ find(macros, last.id) = {}
  /\ ~InFlight("update_app_settings")
  /\ ErrorRaised(notes)

\* C40: the settings-view gate depends on currentView only: a step that
\* enters or leaves Mini mode leaves currentView as it is, and with
\* currentView = settings each of the four hotkey signals is ignored (no
\* state change, no request), in Normal mode and in Mini mode alike, although
\* in Mini mode the Mini recording panel is shown instead of the settings
\* view.
C40_SettingsGateIgnoresMode ==
  [][ /\ isMiniMode' # isMiniMode => currentView' = currentView
      /\ \A mode \in BOOLEAN :
           ( /\ isMiniMode = mode
             /\ last'.op \in HotkeyOps
             /\ last'.src = "hotkey"
             /\ currentView = "settings" )
           => /\ ~last'.gate
              /\ reqs' = <<>>
              /\ inflight' = inflight
              /\ UNCHANGED <<isRecording, isPlaying, recordedEvents, macros,
                             currentView, isMiniMode>> ]_vars

\* a record-start signal has been ignored in Mini mode, with the settings view
\* current and the session idle
C40_Witness ==
  /\ last.op = "hotkey:record-start"
  /\ ~last.gate
  /\ currentView = "settings"
  /\ isMiniMode
  /\ refs.isMiniMode
  /\ ~refs.isRecording
  /\ ~refs.isPlaying

====
